---- MODULE Spec2Model ----
(***************************************************************************)
(* Model of the reservation store of bot.py: the slots and bookings tables *)
(* and the operations book_slot, cancel_booking, move_booking, add_slot,   *)
(* bulk_add_default_slots, the three delete_* operations and               *)
(* _set_reminded_flag.                                                     *)
(*                                                                         *)
(* Every operation opens its own connection (aiosqlite.connect), issues    *)
(* SELECTs in autocommit mode, then INSERT/UPDATE/DELETE statements that   *)
(* open one implicit transaction, then commit().  The statements of an     *)
(* operation are kept as a sequence so that the same code is run either    *)
(* as one completed operation (Spec, SpecAdmin) or one statement at a time *)
(* interleaved with other handlers (SpecConc).                             *)
(*                                                                         *)
(* On top of the store: reminder_worker (SpecRem and its variants) and the *)
(* booking conversation, one FSMContext per user, with its callback and    *)
(* message handlers (SpecConv, SpecTrail, SpecMsg, SpecPair, SpecBoot).    *)
(***************************************************************************)
EXTENDS Integers, Sequences, FiniteSets, TLC

VARIABLES
    slots,      \* table slots: (d,t) -> is_open, for the rows that exist
    bookings,   \* table bookings: id -> row, for the rows that exist
    seq,        \* sqlite_sequence of bookings.id (AUTOINCREMENT, never reused)
    last,       \* the last completed operation: its name, arguments, result
    tasks,      \* handler invocations in flight: position and locals
    lock,       \* the task whose connection holds the write lock, or 0
    tx,         \* that connection's uncommitted view <<slots, bookings, seq>>
    fsm,        \* MemoryStorage: user -> FSM state and collected data
    ev,         \* the update the conversation handler of the last step
                \* handled and the store operation it called, NoEvent
                \* after a step of anything else
    now,        \* wall clock, minutes since 2026-03-10 00:00 Europe/Kyiv
    wk,         \* reminder_worker: position, rows still to visit, attempts
    sent,       \* reminders delivered so far: <<booking id, flag, (d,t)>>
    trail       \* history: user -> the states the session has been in
                \* since it was last cleared (followed in SpecTrail only)

\* what the conversation handlers and the reminder worker add to the store
ext == <<fsm, ev, now, wk, sent, trail>>

vars == <<slots, bookings, seq, last, tasks, lock, tx, fsm, ev, now, wk, sent,
          trail>>

-----------------------------------------------------------------------------
(* Bounds *)

MaxBookings == 2        \* bookings ever inserted (cap on seq)
NumTasks == 2           \* handlers running concurrently in SpecConc
MaxLag == 1             \* minutes a sweep can take on top of the sleep
MaxClock == 30          \* minutes the reminder worker is followed for

-----------------------------------------------------------------------------
(* Program constants and input domains *)

REMINDER_INTERVAL_SEC == 60

DAY_WINDOW_MIN == 10

HOUR_WINDOW_MIN == 10

DEFAULT_TIMES == <<"09:30", "11:30", "13:30">>

SERV_LAMI == "Laminuvannia"

SERV_EXT == "Naroshchuvannia"

NoneVal == "None"

\* fetchone() found no row
NoRow == -1

EmptyFn == [x \in {} |-> 0]

\* the dates of the bulk window that fall on WORKING_DAYS
BulkDates == {"2026-03-10"}

Dates == BulkDates

Times == {DEFAULT_TIMES[i] : i \in 1..Len(DEFAULT_TIMES)}

Keys == Dates \X Times

K1 == <<"2026-03-10", DEFAULT_TIMES[1]>>

K2 == <<"2026-03-10", DEFAULT_TIMES[2]>>

K3 == <<"2026-03-10", DEFAULT_TIMES[3]>>

\* a slot of the following day, outside the bulk template: the admin adds
\* it by hand (a_addslot_t)
K4 == <<"2026-03-11", "09:30">>

AllDates == Dates \cup {K4[1]}

\* minutes from 00:00 of an HH:MM the model uses
Minutes(t) ==
    CASE t = "08:30" -> 8 * 60 + 30
      [] t = "09:30" -> 9 * 60 + 30
      [] t = "11:30" -> 11 * 60 + 30
      [] t = "13:30" -> 13 * 60 + 30

\* days from 2026-03-10 of a date the model uses
DayIndex(d) ==
    CASE d = "2026-03-10" -> 0
      [] d = "2026-03-11" -> 1

\* the local wall-clock instant of an appointment, in minutes; both
\* datetimes carry the same tzinfo object, so their difference is the
\* wall-clock difference
appt_dt_local(d, t) == DayIndex(d) * 24 * 60 + Minutes(t)

\* the ("", "") that cancel_booking returns with False
NoKey == <<"", "">>

UserIds == {101, 102}

\* what a user supplies to book_slot besides (d,t)
Details(uid) ==
    IF uid = 101
    THEN [client_name |-> "Ivanenko Maria", phone |-> "+380991234567",
          service |-> SERV_LAMI, ext_type |-> NoneVal]
    ELSE [client_name |-> "Koval Olha", phone |-> "+380671112233",
          service |-> SERV_EXT, ext_type |-> "2D"]

BookingIds == 1..(MaxBookings + 1)

Fields == {"reminded_day", "reminded_hour"}

-----------------------------------------------------------------------------
(* SQL statements over a database value db = [slots, bookings, seq] *)

DB == [slots |-> slots, bookings |-> bookings, seq |-> seq]

\* SELECT is_open FROM slots WHERE d=? AND t=?  (fetchone)
SelectIsOpen(db, k) == IF k \in DOMAIN db.slots THEN db.slots[k] ELSE NoRow

\* what the handlers hold when fetchone() found no booking
NoBookingRow == [d |-> "", t |-> "", status |-> NoneVal]

\* SELECT d,t,status FROM bookings WHERE id=?  (fetchone)
SelectBooking(db, id) ==
    IF id \in DOMAIN db.bookings
    THEN [d |-> db.bookings[id].d, t |-> db.bookings[id].t,
          status |-> db.bookings[id].status]
    ELSE NoBookingRow

Stmt(kind, id, k, v) == [kind |-> kind, id |-> id, k |-> k, v |-> v]

\* INSERT INTO slots(d,t,is_open) VALUES(?,?,1); the unique index idx_slots_dt
\* raises IntegrityError on an existing key and the row is left as it is
InsertSlot(db, k) ==
    IF k \in DOMAIN db.slots
    THEN db
    ELSE [db EXCEPT !.slots = [x \in DOMAIN db.slots \cup {k} |->
                                  IF x = k THEN 1 ELSE db.slots[x]]]

\* UPDATE slots SET is_open=? WHERE d=? AND t=?
UpdateSlot(db, k, v) ==
    [db EXCEPT !.slots = [x \in DOMAIN db.slots |->
                             IF x = k THEN v ELSE db.slots[x]]]

\* INSERT INTO bookings(...) VALUES(..., 'active', ?, 0, 0)
InsertBooking(db, uid, k) ==
    LET id == db.seq + 1
        row == [user_id |-> uid,
                client_name |-> Details(uid).client_name,
                phone |-> Details(uid).phone,
                service |-> Details(uid).service,
                ext_type |-> Details(uid).ext_type,
                d |-> k[1], t |-> k[2],
                status |-> "active",
                reminded_day |-> 0, reminded_hour |-> 0]
    IN  [db EXCEPT !.seq = id,
                   !.bookings = [x \in DOMAIN db.bookings \cup {id} |->
                                    IF x = id THEN row ELSE db.bookings[x]]]

\* INSERT INTO bookings(...) VALUES(..., 'active', 0, 0) with the values
\* u_confirm passes to book_slot
InsertBookingWith(db, uid, det, k) ==
    LET id == db.seq + 1
        row == [user_id |-> uid,
                client_name |-> det.client_name,
                phone |-> det.phone,
                service |-> det.service,
                ext_type |-> det.ext_type,
                d |-> k[1], t |-> k[2],
                status |-> "active",
                reminded_day |-> 0, reminded_hour |-> 0]
    IN  [db EXCEPT !.seq = id,
                   !.bookings = [x \in DOMAIN db.bookings \cup {id} |->
                                    IF x = id THEN row ELSE db.bookings[x]]]

\* UPDATE bookings SET status='canceled' WHERE id=?
UpdateStatus(db, id) ==
    [db EXCEPT !.bookings = [x \in DOMAIN db.bookings |->
        IF x = id THEN [db.bookings[x] EXCEPT !.status = "canceled"]
        ELSE db.bookings[x]]]

\* mutant: the UPDATE of move_booking without reminded_day=0, reminded_hour=0
UpdateMove_keepflags(db, id, k) ==
    [db EXCEPT !.bookings = [x \in DOMAIN db.bookings |->
        IF x = id
        THEN [db.bookings[x] EXCEPT !.d = k[1], !.t = k[2]]
        ELSE db.bookings[x]]]

\* UPDATE bookings SET d=?, t=?, reminded_day=0, reminded_hour=0 WHERE id=?
UpdateMove(db, id, k) ==
    [db EXCEPT !.bookings = [x \in DOMAIN db.bookings |->
        IF x = id
        THEN [db.bookings[x] EXCEPT !.d = k[1], !.t = k[2],
                                    !.reminded_day = 0, !.reminded_hour = 0]
        ELSE db.bookings[x]]]

\* UPDATE bookings SET {field}=1 WHERE id=?
UpdateFlag(db, id, field) ==
    [db EXCEPT !.bookings = [x \in DOMAIN db.bookings |->
        IF x = id
        THEN IF field = "reminded_day"
             THEN [db.bookings[x] EXCEPT !.reminded_day = 1]
             ELSE [db.bookings[x] EXCEPT !.reminded_hour = 1]
        ELSE db.bookings[x]]]

\* DELETE FROM slots
DeleteSlots(db) == [db EXCEPT !.slots = EmptyFn]

\* DELETE FROM bookings (sqlite_sequence keeps the last id)
DeleteBookings(db) == [db EXCEPT !.bookings = EmptyFn]

\* one INSERT/UPDATE/DELETE statement executed on a connection's view
Exec(db, s) ==
    CASE s.kind = "insert_slot"     -> InsertSlot(db, s.k)
      [] s.kind = "update_slot"     -> UpdateSlot(db, s.k, s.v)
      [] s.kind = "insert_booking"  -> InsertBooking(db, s.id, s.k)
      [] s.kind = "insert_booking_with" ->
             InsertBookingWith(db, s.id, s.v, s.k)
      [] s.kind = "update_status"   -> UpdateStatus(db, s.id)
      [] s.kind = "update_move"     -> UpdateMove(db, s.id, s.k)
      [] s.kind = "update_flag"     -> UpdateFlag(db, s.id, s.v)
      [] s.kind = "delete_slots"    -> DeleteSlots(db)
      [] s.kind = "delete_bookings" -> DeleteBookings(db)

RECURSIVE ExecAll(_, _)
ExecAll(db, ss) ==
    IF ss = <<>> THEN db ELSE ExecAll(Exec(db, Head(ss)), Tail(ss))

-----------------------------------------------------------------------------
(* The operations: what each does after its SELECTs, as the statements it  *)
(* sends before commit(), and the completed operation as db -> [db, ok, rk] *)

Result(db, ok, rk) == [db |-> db, ok |-> ok, rk |-> rk]

\* mutant: book_slot without its UPDATE slots SET is_open=0
book_slot_writes_noclose(uid, k) ==
    << Stmt("insert_booking", uid, k, 0) >>

book_slot_writes(uid, k) ==
    << Stmt("update_slot", 0, k, 0),
       Stmt("insert_booking", uid, k, 0) >>

\* mutant: book_slot storing the phone as the name and the name as the phone
book_slot_with_swapped(db, uid, det, k) ==
    LET row == SelectIsOpen(db, k)
        mixed == [det EXCEPT !.client_name = det.phone,
                             !.phone = det.client_name]
    IN  IF row = NoRow \/ row # 1
        THEN Result(db, FALSE, NoKey)
        ELSE Result(ExecAll(db, << Stmt("update_slot", 0, k, 0),
                                   Stmt("insert_booking_with", uid, k, mixed) >>),
                    TRUE, NoKey)

\* book_slot as u_confirm calls it, det being the collected client_name,
\* phone, service and ext_type
book_slot_with(db, uid, det, k) ==
    LET row == SelectIsOpen(db, k)
    IN  IF row = NoRow \/ row # 1
        THEN Result(db, FALSE, NoKey)
        ELSE Result(ExecAll(db, << Stmt("update_slot", 0, k, 0),
                                   Stmt("insert_booking_with", uid, k, det) >>),
                    TRUE, NoKey)

\* mutant: book_slot that only rejects a row with is_open = 0
book_slot_missing_ok(db, uid, k) ==
    LET row == SelectIsOpen(db, k)
    IN  IF row = 0
        THEN Result(db, FALSE, NoKey)
        ELSE Result(ExecAll(db, << Stmt("update_slot", 0, k, 0),
                                   Stmt("insert_booking", uid, k, 0) >>),
                    TRUE, NoKey)

book_slot(db, uid, k) ==
    LET row == SelectIsOpen(db, k)
    IN  IF row = NoRow \/ row # 1
        THEN Result(db, FALSE, NoKey)
        ELSE Result(ExecAll(db, book_slot_writes(uid, k)), TRUE, NoKey)

\* mutant: cancel_booking without its UPDATE slots SET is_open=1
cancel_booking_writes_noreopen(id, k) ==
    << Stmt("update_status", id, k, 0) >>

cancel_booking_writes(id, k) ==
    << Stmt("update_status", id, k, 0),
       Stmt("update_slot", 0, k, 1) >>

\* mutant: cancel_booking without the early return for status = 'canceled'
cancel_booking_noidem(db, id) ==
    LET row == SelectBooking(db, id)
        k == <<row.d, row.t>>
    IN  IF row.status = NoneVal THEN Result(db, FALSE, NoKey)
        ELSE Result(ExecAll(db, << Stmt("update_status", id, k, 0),
                                   Stmt("update_slot", 0, k, 1) >>), TRUE, k)

cancel_booking(db, id) ==
    LET row == SelectBooking(db, id)
        k == <<row.d, row.t>>
    IN  IF row.status = NoneVal THEN Result(db, FALSE, NoKey)
        ELSE IF row.status = "canceled" THEN Result(db, TRUE, k)
        ELSE Result(ExecAll(db, cancel_booking_writes(id, k)), TRUE, k)

move_booking_writes(id, old, new) ==
    << Stmt("update_slot", 0, old, 1),
       Stmt("update_slot", 0, new, 0),
       Stmt("update_move", id, new, 0) >>

\* mutant: move_booking without the is_open check of the target
move_booking_nocheck(db, id, new) ==
    LET row == SelectBooking(db, id)
    IN  IF row.status = NoneVal THEN Result(db, FALSE, NoKey)
        ELSE IF row.status # "active" THEN Result(db, FALSE, NoKey)
        ELSE Result(ExecAll(db, << Stmt("update_slot", 0, <<row.d, row.t>>, 1),
                                   Stmt("update_slot", 0, new, 0),
                                   Stmt("update_move", id, new, 0) >>),
                    TRUE, NoKey)

move_booking(db, id, new) ==
    LET row == SelectBooking(db, id)
        row2 == SelectIsOpen(db, new)
    IN  IF row.status = NoneVal THEN Result(db, FALSE, NoKey)
        ELSE IF row.status # "active" THEN Result(db, FALSE, NoKey)
        ELSE IF row2 = NoRow \/ row2 # 1 THEN Result(db, FALSE, NoKey)
        ELSE Result(ExecAll(db, move_booking_writes(id, <<row.d, row.t>>, new)),
                    TRUE, NoKey)

\* mutant: INSERT OR REPLACE, an existing slot is made open again
add_slot_reopens(db, k) ==
    IF k \in DOMAIN db.slots
    THEN Result(UpdateSlot(db, k, 1), FALSE, NoKey)
    ELSE Result(Exec(db, Stmt("insert_slot", 0, k, 0)), TRUE, NoKey)

\* True when the INSERT went through, False on IntegrityError
add_slot(db, k) ==
    IF k \in DOMAIN db.slots
    THEN Result(db, FALSE, NoKey)
    ELSE Result(Exec(db, Stmt("insert_slot", 0, k, 0)), TRUE, NoKey)

\* the keys the bulk template visits, in the order of the two loops
BulkKeys == {<<d, DEFAULT_TIMES[i]>> : d \in BulkDates, i \in 1..Len(DEFAULT_TIMES)}

\* rk carries (added, skipped)
bulk_add_default_slots(db) ==
    LET added == Cardinality(BulkKeys \ DOMAIN db.slots)
        skipped == Cardinality(BulkKeys \cap DOMAIN db.slots)
        new == [x \in DOMAIN db.slots \cup BulkKeys |->
                   IF x \in DOMAIN db.slots THEN db.slots[x] ELSE 1]
    IN  Result([db EXCEPT !.slots = new], TRUE, <<added, skipped>>)

\* ORDER BY t on the text column: times are zero-padded HH:MM, so the
\* text comparison orders them as their minutes do
TimeLess(a, b) == Minutes(a) < Minutes(b)

RECURSIVE OrderBy(_)
OrderBy(S) ==
    IF S = {} THEN <<>>
    ELSE LET first == CHOOSE x \in S : \A y \in S : ~TimeLess(y, x)
         IN  <<first>> \o OrderBy(S \ {first})

\* mutant: the date's slots listed whether open or not
get_open_times_all(db, d) ==
    OrderBy({k[2] : k \in {x \in DOMAIN db.slots : x[1] = d}})

\* SELECT t FROM slots WHERE d=? AND is_open=1 ORDER BY t
get_open_times(db, d) ==
    OrderBy({k[2] : k \in {x \in DOMAIN db.slots :
                                x[1] = d /\ db.slots[x] = 1}})

delete_slots_all(db) ==
    Result(Exec(db, Stmt("delete_slots", 0, NoKey, 0)), TRUE, NoKey)

delete_bookings_all(db) ==
    Result(Exec(db, Stmt("delete_bookings", 0, NoKey, 0)), TRUE, NoKey)

delete_everything(db) ==
    Result(ExecAll(db, << Stmt("delete_bookings", 0, NoKey, 0),
                          Stmt("delete_slots", 0, NoKey, 0) >>), TRUE, NoKey)

set_reminded_flag(db, id, field) ==
    IF field \notin Fields
    THEN Result(db, TRUE, NoKey)
    ELSE Result(Exec(db, Stmt("update_flag", id, NoKey, field)), TRUE, NoKey)

-----------------------------------------------------------------------------
(* Sessions and the reminder worker at start-up *)

\* the users whose conversation is followed
ConvUsers == {101}

\* FSMContext after state.clear(): state None and no data
NoSession ==
    [state |-> NoneVal, service |-> NoneVal, ext_type |-> NoneVal,
     day |-> NoneVal, time |-> NoneVal, client_name |-> NoneVal,
     phone |-> NoneVal]

NoEvent ==
    [u |-> 0, name |-> "none", arg |-> NoKey, call |-> "", reply |-> "",
     notices |-> {}, id |-> 0]

\* the worker between two sweeps, in asyncio.sleep
WorkerIdle == [pc |-> "sleep", rows |-> <<>>, tried |-> {}, delivered |-> {}]

\* the clock when the model starts to follow the worker: five minutes
\* before the hour-before window of 09:30 on 2026-03-10 opens
Clock0 == appt_dt_local("2026-03-10", "09:30") - (60 + HOUR_WINDOW_MIN) - 5

\* no conversation under way, the worker asleep, nothing delivered
NoConversation ==
    /\ fsm = [u \in ConvUsers |-> NoSession]
    /\ ev = NoEvent
    /\ now = Clock0
    /\ wk = WorkerIdle
    /\ sent = {}
    /\ trail = [u \in ConvUsers |-> {}]

-----------------------------------------------------------------------------
(* Completed operations as actions *)

Last(op, id, uid, k, r) ==
    [op |-> op, id |-> id, uid |-> uid, k |-> k, ok |-> r.ok, rk |-> r.rk]

\* the operation has committed and returned r
Returned(op, id, uid, k, r) ==
    /\ slots' = r.db.slots
    /\ bookings' = r.db.bookings
    /\ seq' = r.db.seq
    /\ last' = Last(op, id, uid, k, r)
    /\ UNCHANGED <<tasks, lock, tx>>

Done(op, id, uid, k, r) ==
    /\ Returned(op, id, uid, k, r)
    /\ UNCHANGED ext

Book(uid, k) ==
    /\ seq < MaxBookings
    /\ Done("book", 0, uid, k, book_slot(DB, uid, k))

Cancel(id) == Done("cancel", id, 0, NoKey, cancel_booking(DB, id))

Move(id, k) == Done("move", id, 0, k, move_booking(DB, id, k))

AddSlot(k) == Done("add_slot", 0, 0, k, add_slot(DB, k))

Bulk == Done("bulk", 0, 0, NoKey, bulk_add_default_slots(DB))

DeleteSlotsAll == Done("delete_slots_all", 0, 0, NoKey, delete_slots_all(DB))

DeleteBookingsAll ==
    Done("delete_bookings_all", 0, 0, NoKey, delete_bookings_all(DB))

DeleteEverything ==
    Done("delete_everything", 0, 0, NoKey, delete_everything(DB))

\* a handler lists the open times of date d (u_day, a_move_day)
GetOpenTimes(d) ==
    Done("get_open_times", 0, 0, <<d, "">>,
         Result(DB, TRUE, get_open_times(DB, d)))

\* reminder_worker calls it for a row it read with status='active'
SetRemindedFlag(id, field) ==
    /\ id \in DOMAIN bookings
    /\ bookings[id].status = "active"
    /\ Done("set_reminded_flag", id, 0, NoKey, set_reminded_flag(DB, id, field))

EmptyDB == [slots |-> EmptyFn, bookings |-> EmptyFn, seq |-> 0]

\* no connection holds the write lock
NoTx == EmptyDB

\* the state after ensure_schema(): both tables empty, no handler running
Init ==
    /\ slots = EmptyFn
    /\ bookings = EmptyFn
    /\ seq = 0
    /\ last = [op |-> "init", id |-> 0, uid |-> 0, k |-> NoKey,
               ok |-> TRUE, rk |-> NoKey]
    /\ tasks = EmptyFn
    /\ lock = 0
    /\ tx = NoTx
    /\ NoConversation

Next ==
    \/ \E uid \in UserIds, k \in Keys : Book(uid, k)
    \/ \E id \in BookingIds : Cancel(id)
    \/ \E id \in BookingIds, k \in Keys : Move(id, k)
    \/ \E k \in Keys : AddSlot(k)
    \/ Bulk

Spec == Init /\ [][Next]_vars

NextAdmin ==
    \/ \E uid \in UserIds, k \in Keys : Book(uid, k)
    \/ \E id \in BookingIds : Cancel(id)
    \/ \E id \in BookingIds, k \in Keys : Move(id, k)
    \/ \E k \in Keys : AddSlot(k)
    \/ Bulk
    \/ DeleteSlotsAll
    \/ DeleteBookingsAll
    \/ DeleteEverything

SpecAdmin == Init /\ [][NextAdmin]_vars

\* the engine operations together with the reminder flags being set; to
\* keep the flag combinations within reach one client books and the admin
\* adds the first two times only, so the third never has a slot row
NextFlags ==
    \/ \E k \in Keys : Book(101, k)
    \/ \E id \in BookingIds : Cancel(id)
    \/ \E id \in BookingIds, k \in Keys : Move(id, k)
    \/ \E k \in {K1, K2} : AddSlot(k)
    \/ \E id \in BookingIds, f \in Fields : SetRemindedFlag(id, f)

SpecFlags == Init /\ [][NextFlags]_vars

\* the operations that open and close slots, on two dates, and the listing
\* of a date's open times
NextList ==
    \/ \E k \in Keys \cup {K4} : Book(101, k)
    \/ \E id \in BookingIds : Cancel(id)
    \/ \E k \in Keys \cup {K4} : AddSlot(k)
    \/ \E d \in AllDates : GetOpenTimes(d)

SpecList == Init /\ [][NextList]_vars

-----------------------------------------------------------------------------
(* Handlers interleaved: aiogram runs each update's handler as its own     *)
(* asyncio task, and every await db.execute / db.commit is a point where   *)
(* another handler's statement can run.  A SELECT reads the committed      *)
(* tables.  The first INSERT/UPDATE of a connection takes the database's   *)
(* write lock (one writer at a time; another writer waits), the            *)
(* statements change only that connection's view, and commit() publishes   *)
(* them together.  An exception closes the connection, which rolls back.   *)

Tasks == 1..NumTasks

\* the store the concurrent handlers start from: the bulk template
\* provisioned, booking 1 of user 101 on K1 already reminded for the day,
\* booking 2 of user 102 on K2, K3 open
ConcStore ==
    LET s0 == bulk_add_default_slots(EmptyDB).db
        s1 == book_slot(s0, 101, K1).db
        s2 == book_slot(s1, 102, K2).db
    IN  set_reminded_flag(s2, 1, "reminded_day").db

Task(op, id, uid, k, pc) ==
    [op |-> op, id |-> id, uid |-> uid, k |-> k, pc |-> pc,
     row |-> NoBookingRow, n |-> 0, ok |-> FALSE, rk |-> NoKey,
     raised |-> FALSE]

\* the calls a handler can make, user 200+i acting in task i
Calls(i) ==
    {Task("book", 0, 200 + i, k, "select_slot") : k \in Keys}
    \cup {Task("cancel", id, 0, NoKey, "select_booking") : id \in {1, 2}}
    \cup {Task("move", id, 0, k, "select_booking") : id \in {1, 2}, k \in Keys}

InitConc ==
    /\ slots = ConcStore.slots
    /\ bookings = ConcStore.bookings
    /\ seq = ConcStore.seq
    /\ last = [op |-> "init", id |-> 0, uid |-> 0, k |-> NoKey,
               ok |-> TRUE, rk |-> NoKey]
    /\ tasks \in {f \in [Tasks -> UNION {Calls(i) : i \in Tasks}] :
                     \A i \in Tasks : f[i] \in Calls(i)}
    /\ lock = 0
    /\ tx = NoTx
    /\ NoConversation

\* the statements task i sends between its SELECTs and its commit()
Writes(i) ==
    LET c == tasks[i]
    IN  CASE c.op = "book"   -> book_slot_writes(c.uid, c.k)
          [] c.op = "cancel" -> cancel_booking_writes(c.id, <<c.row.d, c.row.t>>)
          [] c.op = "move"   -> move_booking_writes(c.id, <<c.row.d, c.row.t>>, c.k)

Return(i, ok, rk) ==
    tasks' = [tasks EXCEPT ![i].pc = "done", ![i].ok = ok, ![i].rk = rk]

\* cur.fetchone() of SELECT d,t,status FROM bookings WHERE id=?
SelectBookingStep(i) ==
    LET c == tasks[i]
        row == SelectBooking(DB, c.id)
        k == <<row.d, row.t>>
    IN  /\ c.pc = "select_booking"
        /\ IF c.op = "cancel"
           THEN IF row.status = NoneVal THEN Return(i, FALSE, NoKey)
                ELSE IF row.status = "canceled" THEN Return(i, TRUE, k)
                ELSE tasks' = [tasks EXCEPT ![i].row = row, ![i].pc = "write"]
           ELSE IF row.status = NoneVal \/ row.status # "active"
                THEN Return(i, FALSE, NoKey)
                ELSE tasks' = [tasks EXCEPT ![i].row = row,
                                            ![i].pc = "select_slot"]
        /\ UNCHANGED <<slots, bookings, seq, last, lock, tx>>
        /\ UNCHANGED ext

\* cur.fetchone() of SELECT is_open FROM slots WHERE d=? AND t=?
SelectSlotStep(i) ==
    LET c == tasks[i]
        row == SelectIsOpen(DB, c.k)
    IN  /\ c.pc = "select_slot"
        /\ IF row = NoRow \/ row # 1
           THEN Return(i, FALSE, NoKey)
           ELSE tasks' = [tasks EXCEPT ![i].pc = "write"]
        /\ UNCHANGED <<slots, bookings, seq, last, lock, tx>>
        /\ UNCHANGED ext

\* the view a statement of task i runs on
View(i) == IF lock = i THEN tx ELSE DB

\* mutant: a connection in autocommit mode, every statement published at once
WriteStep_autocommit(i) ==
    LET c == tasks[i]
        db == Exec(View(i), Writes(i)[c.n + 1])
    IN  /\ c.pc = "write"
        /\ c.n < Len(Writes(i))
        /\ lock \in {0, i}
        /\ tx' = db
        /\ slots' = db.slots
        /\ bookings' = db.bookings
        /\ seq' = db.seq
        /\ lock' = i
        /\ tasks' = [tasks EXCEPT ![i].n = c.n + 1]
        /\ UNCHANGED <<last, ext>>

\* await db.execute(INSERT/UPDATE ...): the next statement of the operation
WriteStep(i) ==
    LET c == tasks[i]
    IN  /\ c.pc = "write"
        /\ c.n < Len(Writes(i))
        /\ lock \in {0, i}
        /\ tx' = Exec(View(i), Writes(i)[c.n + 1])
        /\ lock' = i
        /\ tasks' = [tasks EXCEPT ![i].n = c.n + 1]
        /\ UNCHANGED <<slots, bookings, seq, last, ext>>

\* await db.commit(), then return True / (True, d, t)
CommitStep(i) ==
    LET c == tasks[i]
    IN  /\ c.pc = "write"
        /\ c.n = Len(Writes(i))
        /\ lock = i
        /\ slots' = tx.slots
        /\ bookings' = tx.bookings
        /\ seq' = tx.seq
        /\ lock' = 0
        /\ tx' = NoTx
        /\ Return(i, TRUE, IF c.op = "cancel" THEN <<c.row.d, c.row.t>> ELSE NoKey)
        /\ UNCHANGED <<last, ext>>

\* mutant: a failure that leaves the statements sent so far in the tables
FailStep_keeps(i) ==
    /\ tasks[i].pc # "done"
    /\ tasks' = [tasks EXCEPT ![i].pc = "done", ![i].raised = TRUE]
    /\ IF lock = i
       THEN /\ lock' = 0 /\ tx' = NoTx
            /\ slots' = tx.slots /\ bookings' = tx.bookings /\ seq' = tx.seq
       ELSE UNCHANGED <<lock, tx, slots, bookings, seq>>
    /\ UNCHANGED <<last, ext>>

\* a store failure at any await: the exception leaves the async with
\* block, the connection is closed and its open transaction rolled back
FailStep(i) ==
    /\ tasks[i].pc # "done"
    /\ tasks' = [tasks EXCEPT ![i].pc = "done", ![i].raised = TRUE]
    /\ IF lock = i
       THEN lock' = 0 /\ tx' = NoTx
       ELSE UNCHANGED <<lock, tx>>
    /\ UNCHANGED <<slots, bookings, seq, last, ext>>

NextConc ==
    \/ \E i \in Tasks : SelectBookingStep(i)
    \/ \E i \in Tasks : SelectSlotStep(i)
    \/ \E i \in Tasks : WriteStep(i)
    \/ \E i \in Tasks : CommitStep(i)
    \/ \E i \in Tasks : FailStep(i)

SpecConc == InitConc /\ [][NextConc]_vars

-----------------------------------------------------------------------------
(* reminder_worker: every REMINDER_INTERVAL_SEC it reads the clock and the *)
(* Active bookings, and for each row read sends the day-before or the      *)
(* hour-before reminder when the row's flag is 0 and the appointment is    *)
(* inside the window, setting the flag after the send.  Time is counted in *)
(* minutes; it passes while the worker sleeps and while a sweep runs.      *)

\* a slot of the following day whose day-before window is the hour-before
\* window of K1
K5 == <<"2026-03-11", "08:30">>

RemKeys == {K1, K2, K5}

\* the store the worker starts from: three hand-added slots, booking 1 of
\* user 101 on K1, booking 2 of user 102 on K5, K2 open
RemStore ==
    LET s0 == add_slot(add_slot(add_slot(EmptyDB, K1).db, K2).db, K5).db
        s1 == book_slot(s0, 101, K1).db
    IN  book_slot(s1, 102, K5).db

\* mutant: a worker that sleeps half an hour
SweepGaps_halfhour == {REMINDER_INTERVAL_SEC \div 2}

\* minutes between the starts of two sweeps: the sleep and the sweep itself
SweepGaps == {REMINDER_INTERVAL_SEC \div 60 + lag : lag \in 0..MaxLag}

InDayWindow(delta) ==
    (24 * 60 - DAY_WINDOW_MIN) <= delta /\ delta <= (24 * 60 + DAY_WINDOW_MIN)

InHourWindow(delta) ==
    (60 - HOUR_WINDOW_MIN) <= delta /\ delta <= (60 + HOUR_WINDOW_MIN)

InWindow(field, delta) ==
    IF field = "reminded_day" THEN InDayWindow(delta) ELSE InHourWindow(delta)

RECURSIVE RowsOf(_, _)
RowsOf(bk, ids) ==
    IF ids = {} THEN <<>>
    ELSE LET id == CHOOSE x \in ids : \A y \in ids : x <= y
         IN  << [id |-> id, user_id |-> bk[id].user_id,
                 d |-> bk[id].d, t |-> bk[id].t,
                 reminded_day |-> bk[id].reminded_day,
                 reminded_hour |-> bk[id].reminded_hour] >>
             \o RowsOf(bk, ids \ {id})

\* SELECT id, user_id, ..., d, t, reminded_day, reminded_hour
\* FROM bookings WHERE status='active'
SelectActive(db) ==
    RowsOf(db.bookings,
           {b \in DOMAIN db.bookings : db.bookings[b].status = "active"})

\* what can happen to one reminder: sent and flagged, the send raising, or
\* the send succeeding and the UPDATE of the flag raising
Outcomes == {"ok", "send_fails", "flag_fails"}

\* what a sweep has done so far
Sweeping(db, tried, delivered, log) ==
    [db |-> db, tried |-> tried, delivered |-> delivered, sent |-> log]

\* mutant: the flag written before the send is attempted
Remind_flagfirst(st, row, field, o) ==
    [db |-> set_reminded_flag(st.db, row.id, field).db,
     tried |-> st.tried \cup {<<row.id, field>>},
     delivered |-> IF o = "send_fails" THEN st.delivered
                   ELSE st.delivered \cup {<<row.id, field>>},
     sent |-> IF o = "send_fails" THEN st.sent
              ELSE st.sent \cup {<<row.id, field, <<row.d, row.t>>>>}]

\* try: await bot.send_message(...); await _set_reminded_flag(bid, field)
\* except Exception: pass
Remind(st, row, field, o) ==
    [db |-> IF o = "ok"
            THEN set_reminded_flag(st.db, row.id, field).db ELSE st.db,
     tried |-> st.tried \cup {<<row.id, field>>},
     delivered |-> IF o = "send_fails" THEN st.delivered
                   ELSE st.delivered \cup {<<row.id, field>>},
     sent |-> IF o = "send_fails" THEN st.sent
              ELSE st.sent \cup {<<row.id, field, <<row.d, row.t>>>>}]

\* mutant: the flag the row was read with is not looked at
VisitRow_noflag(st, row, o, clock) ==
    LET delta == appt_dt_local(row.d, row.t) - clock
        a == IF InDayWindow(delta)
             THEN Remind(st, row, "reminded_day", o) ELSE st
    IN  IF InHourWindow(delta) THEN Remind(a, row, "reminded_hour", o) ELSE a

\* one pass of the body of "for r in rows"
VisitRow(st, row, o, clock) ==
    LET delta == appt_dt_local(row.d, row.t) - clock
        a == IF row.reminded_day = 0 /\ InDayWindow(delta)
             THEN Remind(st, row, "reminded_day", o) ELSE st
    IN  IF row.user_id = 0 \/ delta < -5 THEN st
        ELSE IF row.reminded_hour = 0 /\ InHourWindow(delta)
             THEN Remind(a, row, "reminded_hour", o) ELSE a

\* mutant: the first exception ends the loop over the rows
RECURSIVE VisitRows_abort(_, _, _, _)
VisitRows_abort(st, rows, out, clock) ==
    IF rows = <<>> THEN st
    ELSE LET a == VisitRow(st, Head(rows), out[Head(rows).id], clock)
         IN  IF a.tried # st.tried /\ out[Head(rows).id] # "ok" THEN a
             ELSE VisitRows_abort(a, Tail(rows), out, clock)

\* for r in rows: ..., out[id] being what happens to the reminder of row id
RECURSIVE VisitRows(_, _, _, _)
VisitRows(st, rows, out, clock) ==
    IF rows = <<>> THEN st
    ELSE VisitRows(VisitRow(st, Head(rows), out[Head(rows).id], clock),
                   Tail(rows), out, clock)

\* one iteration of "while True", from the end of a sleep to the next
SweepWith(outs) ==
    \E gap \in SweepGaps :
      /\ wk.pc = "sleep"
      /\ now + gap <= Clock0 + MaxClock
      /\ now' = now + gap
      /\ \E rows \in {SelectActive(DB)} :
           \E out \in [{rows[i].id : i \in 1..Len(rows)} -> outs] :
             \E st \in {VisitRows(Sweeping(DB, {}, {}, sent), rows, out,
                                  now + gap)} :
               /\ slots' = st.db.slots
               /\ bookings' = st.db.bookings
               /\ seq' = st.db.seq
               /\ sent' = st.sent
               /\ wk' = [WorkerIdle EXCEPT !.tried = st.tried,
                                           !.delivered = st.delivered]
      /\ UNCHANGED <<last, tasks, lock, tx, fsm, ev, trail>>

\* a sweep while the store works: a send may fail
Sweep == SweepWith({"ok", "send_fails"})

\* a sweep while the store may fail too
SweepStoreFailing == SweepWith(Outcomes)

InitRem ==
    /\ slots = RemStore.slots
    /\ bookings = RemStore.bookings
    /\ seq = RemStore.seq
    /\ last = [op |-> "init", id |-> 0, uid |-> 0, k |-> NoKey,
               ok |-> TRUE, rk |-> NoKey]
    /\ tasks = EmptyFn
    /\ lock = 0
    /\ tx = NoTx
    /\ NoConversation

NextRem ==
    \/ Sweep
    \/ \E id \in {1, 2} : Cancel(id)
    \/ \E k \in {K1, K2} : Move(1, k)

SpecRem == InitRem /\ [][NextRem]_vars

\* the worker's loop never ends and asyncio runs it whenever its sleep is
\* over
SpecRemFair == SpecRem /\ WF_vars(Sweep)

NextRemFail ==
    \/ SweepStoreFailing
    \/ \E id \in {1, 2} : Cancel(id)
    \/ \E k \in {K1, K2} : Move(1, k)

SpecRemFail == InitRem /\ [][NextRemFail]_vars

\* the same worker one await at a time: the SELECT of the Active rows,
\* then one row per step, other handlers running in between

\* now = datetime.now(TZ); rows = await cur.fetchall()
SweepRead ==
    \E gap \in SweepGaps :
      LET rows == SelectActive(DB)
      IN  /\ wk.pc = "sleep"
          /\ now + gap <= Clock0 + MaxClock
          /\ now' = now + gap
          /\ wk' = [pc |-> IF rows = <<>> THEN "sleep" ELSE "rows",
                    rows |-> rows, tried |-> {}, delivered |-> {}]
          /\ UNCHANGED <<slots, bookings, seq, last, tasks, lock, tx,
                         fsm, ev, sent, trail>>

\* the body of the loop for the next row read
SweepRow ==
    \E o \in {"ok", "send_fails"} :
      LET st == VisitRow(Sweeping(DB, wk.tried, wk.delivered, sent),
                         Head(wk.rows), o, now)
      IN  /\ wk.pc = "rows"
          /\ slots' = st.db.slots
          /\ bookings' = st.db.bookings
          /\ seq' = st.db.seq
          /\ sent' = st.sent
          /\ wk' = [pc |-> IF Tail(wk.rows) = <<>> THEN "sleep" ELSE "rows",
                    rows |-> Tail(wk.rows), tried |-> st.tried,
                    delivered |-> st.delivered]
          /\ UNCHANGED <<now, last, tasks, lock, tx, fsm, ev, trail>>

NextRemConc ==
    \/ SweepRead
    \/ SweepRow
    \/ \E id \in {1, 2} : Cancel(id)
    \/ \E k \in {K1, K2} : Move(1, k)

SpecRemConc == InitRem /\ [][NextRemConc]_vars

-----------------------------------------------------------------------------
(* The booking conversation: aiogram keeps one FSMContext per user (state  *)
(* and data); a message handler runs when its text or state filter         *)
(* matches, a callback-query handler whenever the callback data matches,   *)
(* whatever the state, and buttons of earlier messages stay pressable.     *)

EXT_TYPES == <<"Klasyka", "2D", "3D">>

\* the texts a user sends in the conversation followed in SpecConv: a
\* surname and name, a single name, a phone number, a number too short
Texts == {"Ivanenko Maria", "Maria", "+380991234567", "12345"}

\* the text of the menu button of the reply keyboard, "Menu" with a house
NAV_MENU == "Menu"

\* the text of the book button of the reply keyboard
NAV_BOOK == "Zapysatys"

CMD_START == "/start"

\* more texts: a two-word name of four characters, a message without
\* text, sixteen digits, a phone number written with spaces inside, the
\* phone number with spaces around it, and the three navigation texts
TextsWide ==
    Texts \cup {"Li Y", "", "1234567890123456", "+380 99 123 45 67",
                " +380991234567 ", CMD_START, NAV_MENU, NAV_BOOK}

\* the characters of a text (message.text or "")
Spelling(txt) ==
    CASE txt = "Ivanenko Maria" ->
           <<"I", "v", "a", "n", "e", "n", "k", "o", " ", "M", "a", "r", "i", "a">>
      [] txt = "Maria" ->
           <<"M", "a", "r", "i", "a">>
      [] txt = "+380991234567" ->
           <<"+", "3", "8", "0", "9", "9", "1", "2", "3", "4", "5", "6", "7">>
      [] txt = "12345" ->
           <<"1", "2", "3", "4", "5">>
      [] txt = "Li Y" ->
           <<"L", "i", " ", "Y">>
      [] txt = "" ->
           <<>>
      [] txt = "1234567890123456" ->
           <<"1", "2", "3", "4", "5", "6", "7", "8", "9", "0", "1", "2", "3", "4", "5", "6">>
      [] txt = "+380 99 123 45 67" ->
           <<"+", "3", "8", "0", " ", "9", "9", " ", "1", "2", "3", " ", "4", "5", " ", "6", "7">>
      [] txt = " +380991234567 " ->
           <<" ", "+", "3", "8", "0", "9", "9", "1", "2", "3", "4", "5", "6", "7", " ">>
      [] txt = "/start" ->
           <<"/", "s", "t", "a", "r", "t">>
      [] txt = "Menu" ->
           <<"M", "e", "n", "u">>
      [] txt = "Zapysatys" ->
           <<"Z", "a", "p", "y", "s", "a", "t", "y", "s">>

Digits == {"0", "1", "2", "3", "4", "5", "6", "7", "8", "9"}

RECURSIVE LStrip(_)
LStrip(cs) ==
    IF cs # <<>> /\ Head(cs) = " " THEN LStrip(Tail(cs)) ELSE cs

RECURSIVE RStrip(_)
RStrip(cs) ==
    IF cs # <<>> /\ cs[Len(cs)] = " "
    THEN RStrip(SubSeq(cs, 1, Len(cs) - 1)) ELSE cs

\* text.strip(): the text without the spaces at its two ends
strip(txt) ==
    CHOOSE t \in TextsWide : Spelling(t) = RStrip(LStrip(Spelling(txt)))

\* the number of maximal runs of non-space characters in cs
RECURSIVE Tokens(_)
Tokens(cs) ==
    IF cs = <<>> THEN 0
    ELSE IF Head(cs) # " " /\ (Len(cs) = 1 \/ cs[2] = " ")
         THEN 1 + Tokens(Tail(cs))
         ELSE Tokens(Tail(cs))

\* len(text.split())
Words(txt) == Tokens(Spelling(txt))

\* len(text)
Chars(txt) == Len(Spelling(txt))

\* len(re.sub(r"\D", "", s))
digits_count(txt) == Len(SelectSeq(Spelling(txt), LAMBDA c : c \in Digits))

\* the (d,t) of the time buttons a user can press
ConvKeys == {K1, K2}

\* the store the conversation starts from: the first two times of
\* 2026-03-10 added and open, no slot on 2026-03-11
ConvStore == add_slot(add_slot(EmptyDB, K1).db, K2).db

\* the handler has run for an update of user u, calling the store
\* operation call, if any, and answering with the notice reply, if any
Heard(u, name, arg, call, reply) ==
    ev' = [u |-> u, name |-> name, arg |-> arg, call |-> call, reply |-> reply,
           notices |-> {}, id |-> 0]

\* mutant: one FSMContext for every user
Say_shared(u, name, arg, s, reply) ==
    /\ Heard(u, name, arg, "", reply)
    /\ fsm' = [v \in DOMAIN fsm |-> s]
    /\ UNCHANGED <<slots, bookings, seq, last, tasks, lock, tx, now, wk, sent>>

\* a handler that touches the FSMContext only and answers with a notice
Say(u, name, arg, s, reply) ==
    /\ Heard(u, name, arg, "", reply)
    /\ fsm' = [fsm EXCEPT ![u] = s]
    /\ UNCHANGED <<slots, bookings, seq, last, tasks, lock, tx, now, wk, sent>>

\* a handler that touches the FSMContext only and shows the next keyboard
\* or prompt
Talk(u, name, arg, s) == Say(u, name, arg, s, "")

\* /start and the Menu button: state.clear()
cmd_start(u) == Talk(u, "cmd_start", <<CMD_START, "">>, NoSession)

\* the menu button: state.clear()
nav_menu(u) == Talk(u, "nav_menu", <<NAV_MENU, "">>, NoSession)

\* the book button: state.clear(), set_state(service)
nav_book(u) ==
    Talk(u, "nav_book", <<NAV_BOOK, "">>, [NoSession EXCEPT !.state = "service"])

\* u:start and the Book button: state.clear(), set_state(service)
u_start(u) == Talk(u, "u_start", NoKey, [NoSession EXCEPT !.state = "service"])

\* u:back:services: set_state(service), the data kept
u_back(u) ==
    Talk(u, "u_back", <<"services", "">>, [fsm[u] EXCEPT !.state = "service"])

u_service(u, serv) ==
    Talk(u, "u_service", <<serv, "">>,
         IF serv = "lami"
         THEN [fsm[u] EXCEPT !.service = SERV_LAMI, !.ext_type = NoneVal,
                             !.state = "day"]
         ELSE [fsm[u] EXCEPT !.service = SERV_EXT, !.state = "ext_type"])

u_ext(u, typ) ==
    Talk(u, "u_ext", <<typ, "">>,
         [fsm[u] EXCEPT !.ext_type = typ, !.state = "day"])

\* mutant: the times keyboard is shown whether or not the date has times
u_day_advances(u, d) ==
    Talk(u, "u_day", <<d, "">>, [fsm[u] EXCEPT !.day = d, !.state = "time"])

u_day(u, d) ==
    IF get_open_times(DB, d) = <<>>
    THEN Say(u, "u_day", <<d, "">>, [fsm[u] EXCEPT !.day = d], "no_times")
    ELSE Talk(u, "u_day", <<d, "">>,
              [fsm[u] EXCEPT !.day = d, !.state = "time"])

\* mutant: the chosen time is closed in the store as soon as it is chosen
u_time_holds(u, k) ==
    /\ Heard(u, "u_time", k, "", "")
    /\ fsm' = [fsm EXCEPT ![u] = [@ EXCEPT !.day = k[1], !.time = k[2],
                                           !.state = "fullname"]]
    /\ slots' = [x \in DOMAIN slots |-> IF x = k THEN 0 ELSE slots[x]]
    /\ UNCHANGED <<bookings, seq, last, tasks, lock, tx, now, wk, sent>>

u_time(u, k) ==
    Talk(u, "u_time", k,
         [fsm[u] EXCEPT !.day = k[1], !.time = k[2], !.state = "fullname"])

u_fullname(u, txt) ==
    LET fullname == strip(txt)
    IN  /\ fsm[u].state = "fullname"
        /\ IF Words(fullname) < 2 \/ Chars(fullname) < 5
           THEN Say(u, "u_fullname", <<txt, "">>, fsm[u], "bad_name")
           ELSE Talk(u, "u_fullname", <<txt, "">>,
                     [fsm[u] EXCEPT !.client_name = fullname,
                                    !.state = "phone"])

u_phone(u, txt) ==
    LET s == fsm[u]
        phone == strip(txt)
    IN  /\ s.state = "phone"
        /\ IF digits_count(phone) < 9
           THEN Say(u, "u_phone", <<txt, "">>, s, "bad_phone")
           ELSE IF NoneVal \in {s.service, s.day, s.time, s.client_name}
           THEN Say(u, "u_phone", <<txt, "">>, NoSession, "data_lost")
           ELSE Talk(u, "u_phone", <<txt, "">>,
                     [s EXCEPT !.phone = phone, !.state = "confirm"])

\* a message no handler's filter matches is dropped
Unhandled(u, txt) ==
    /\ fsm[u].state \notin {"fullname", "phone"}
    /\ Talk(u, "unhandled", <<txt, "">>, fsm[u])

\* mutant: the handlers filtered by state are tried before the others
Message_statefirst(u, txt) ==
    \/ u_fullname(u, txt)
    \/ u_phone(u, txt)
    \/ /\ fsm[u].state \notin {"fullname", "phone"}
       /\ CASE txt = NAV_MENU -> nav_menu(u)
            [] txt = NAV_BOOK -> nav_book(u)
            [] txt = CMD_START -> cmd_start(u)
            [] OTHER -> Unhandled(u, txt)

\* a text message of user u goes to the first registered handler whose
\* filter matches: the navigation buttons, /start, then the handlers
\* filtered by state
Message(u, txt) ==
    CASE txt = NAV_MENU -> nav_menu(u)
      [] txt = NAV_BOOK -> nav_book(u)
      [] txt = CMD_START -> cmd_start(u)
      [] OTHER -> \/ u_fullname(u, txt)
                  \/ u_phone(u, txt)
                  \/ Unhandled(u, txt)

\* the data of the session is complete enough for u_confirm to book
Collected(s) ==
    NoneVal \notin {s.service, s.day, s.time, s.client_name, s.phone}

\* if not ok: ... await state.set_state(UserBooking.day)
AfterSlotTaken(s) == [s EXCEPT !.state = "day"]

\* ADMIN_CHAT_IDS: the chats the admin notices go to
admin_chat_targets == <<901, 902>>

Range(f) == {f[i] : i \in DOMAIN f}

\* for chat_id in admin_chat_targets(): try: send_message except: pass.
\* notice gives the outcome of each send; the result is the set of chats a
\* send was attempted to
RECURSIVE notify_admins(_, _)
notify_admins(targets, notice) ==
    IF targets = <<>> THEN {}
    ELSE LET swallowed == notice[Head(targets)] = "fails"
         IN  {Head(targets)} \cup notify_admins(Tail(targets), notice)

\* u_confirm where call.message.answer ends as answer says ("ok" or
\* "fails", an exception that leaves the handler) and the sends of
\* notify_admins end as notice says
u_confirm_sends(u, action, answer, notice) ==
    LET s == fsm[u]
        k == <<s.day, s.time>>
        det == [client_name |-> s.client_name, phone |-> s.phone,
                service |-> s.service, ext_type |-> s.ext_type]
    IN  IF action = "no"
        THEN Say(u, "u_confirm", <<action, "">>, NoSession,
                 IF answer = "ok" THEN "cancelled" ELSE "undelivered")
        ELSE IF ~Collected(s)
        THEN Say(u, "u_confirm", <<action, "">>, NoSession,
                 IF answer = "ok" THEN "data_lost" ELSE "undelivered")
        ELSE \E r \in {book_slot_with(DB, u, det, k)} :
               /\ seq < MaxBookings
               /\ Returned("book", 0, u, k, r)
               /\ ev' = [u |-> u, name |-> "u_confirm",
                         arg |-> <<action, "">>, call |-> "book_slot",
                         reply |-> IF answer # "ok" THEN "undelivered"
                                   ELSE IF r.ok THEN "booked"
                                   ELSE "slot_taken",
                         notices |-> IF r.ok /\ answer = "ok"
                                     THEN notify_admins(admin_chat_targets,
                                                        notice)
                                     ELSE {},
                         id |-> 0]
               /\ fsm' = [fsm EXCEPT ![u] = IF answer # "ok" THEN s
                                            ELSE IF r.ok THEN NoSession
                                            ELSE AfterSlotTaken(s)]
               /\ UNCHANGED <<now, wk, sent>>

\* mutant: confirm=no leaves the collected data in the session
u_confirm_keeps(u, action) ==
    LET s == fsm[u]
        k == <<s.day, s.time>>
        det == [client_name |-> s.client_name, phone |-> s.phone,
                service |-> s.service, ext_type |-> s.ext_type]
    IN  IF action = "no"
        THEN Say(u, "u_confirm", <<action, "">>,
                 [s EXCEPT !.state = NoneVal], "cancelled")
        ELSE IF ~Collected(s)
        THEN Say(u, "u_confirm", <<action, "">>, NoSession, "data_lost")
        ELSE \E r \in {book_slot_with(DB, u, det, k)} :
               /\ seq < MaxBookings
               /\ Returned("book", 0, u, k, r)
               /\ Heard(u, "u_confirm", <<action, "">>, "book_slot",
                        IF r.ok THEN "booked" ELSE "slot_taken")
               /\ fsm' = [fsm EXCEPT ![u] = IF r.ok THEN NoSession
                                            ELSE AfterSlotTaken(s)]
               /\ UNCHANGED <<now, wk, sent>>

\* u_confirm with every message delivered
u_confirm(u, action) ==
    u_confirm_sends(u, action, "ok", [a \in Range(admin_chat_targets) |-> "ok"])

\* another user's booking of (d,t) = k, confirmed in their own session
OtherBooks(uid, k) ==
    /\ seq < MaxBookings
    /\ Returned("book", 0, uid, k, book_slot(DB, uid, k))
    /\ ev' = NoEvent
    /\ UNCHANGED <<fsm, now, wk, sent, trail>>

InitConv ==
    /\ slots = ConvStore.slots
    /\ bookings = ConvStore.bookings
    /\ seq = ConvStore.seq
    /\ last = [op |-> "init", id |-> 0, uid |-> 0, k |-> NoKey,
               ok |-> TRUE, rk |-> NoKey]
    /\ tasks = EmptyFn
    /\ lock = 0
    /\ tx = NoTx
    /\ NoConversation

\* the conversation of user 101 while user 102 books the first time
NextConv ==
    \/ \E u \in ConvUsers : cmd_start(u)
         /\ UNCHANGED trail
    \/ \E u \in ConvUsers : u_start(u)
         /\ UNCHANGED trail
    \/ \E u \in ConvUsers : u_back(u)
         /\ UNCHANGED trail
    \/ \E u \in ConvUsers, serv \in {"lami", "ext"} : u_service(u, serv)
         /\ UNCHANGED trail
    \/ \E u \in ConvUsers : u_ext(u, EXT_TYPES[2])
         /\ UNCHANGED trail
    \/ \E u \in ConvUsers, d \in AllDates : u_day(u, d)
         /\ UNCHANGED trail
    \/ \E u \in ConvUsers, k \in ConvKeys : u_time(u, k)
         /\ UNCHANGED trail
    \/ \E u \in ConvUsers, txt \in Texts : u_fullname(u, txt)
         /\ UNCHANGED trail
    \/ \E u \in ConvUsers, txt \in Texts : u_phone(u, txt)
         /\ UNCHANGED trail
    \/ \E u \in ConvUsers, a \in {"yes", "no"} : u_confirm(u, a)
         /\ UNCHANGED trail
    \/ OtherBooks(102, K1)

SpecConv == InitConv /\ [][NextConv]_vars

\* the history of user u's session after a handler has run: emptied by
\* state.clear(), then the state the handler set, if it set one
Track(u) ==
    trail' = [trail EXCEPT ![u] =
                (IF fsm'[u].state = NoneVal \/ ev'.name \in {"u_start", "nav_book"}
                 THEN {} ELSE @)
                \cup (IF fsm'[u].state = NoneVal THEN {}
                      ELSE {fsm'[u].state})]

\* the conversation of user 101 with the history of the session followed
NextTrail ==
    \/ \E u \in ConvUsers : cmd_start(u) /\ Track(u)
    \/ \E u \in ConvUsers : u_start(u) /\ Track(u)
    \/ \E u \in ConvUsers : u_back(u) /\ Track(u)
    \/ \E u \in ConvUsers, serv \in {"lami", "ext"} :
         u_service(u, serv) /\ Track(u)
    \/ \E u \in ConvUsers : u_ext(u, EXT_TYPES[2]) /\ Track(u)
    \/ \E u \in ConvUsers, d \in AllDates : u_day(u, d) /\ Track(u)
    \/ \E u \in ConvUsers, k \in ConvKeys : u_time(u, k) /\ Track(u)
    \/ \E u \in ConvUsers, txt \in Texts : u_fullname(u, txt) /\ Track(u)
    \/ \E u \in ConvUsers, txt \in Texts : u_phone(u, txt) /\ Track(u)
    \/ \E u \in ConvUsers, a \in {"yes", "no"} : u_confirm(u, a) /\ Track(u)

SpecTrail == InitConv /\ [][NextTrail]_vars

\* the conversation of user 101 with the text messages dispatched, up to
\* the confirmation
NextMsg ==
    \/ \E u \in ConvUsers, txt \in TextsWide : Message(u, txt)
         /\ UNCHANGED trail
    \/ \E u \in ConvUsers : u_start(u)
         /\ UNCHANGED trail
    \/ \E u \in ConvUsers : u_back(u)
         /\ UNCHANGED trail
    \/ \E u \in ConvUsers, serv \in {"lami", "ext"} : u_service(u, serv)
         /\ UNCHANGED trail
    \/ \E u \in ConvUsers : u_ext(u, EXT_TYPES[2])
         /\ UNCHANGED trail
    \/ \E u \in ConvUsers : u_day(u, K1[1])
         /\ UNCHANGED trail
    \/ \E u \in ConvUsers : u_time(u, K1)
         /\ UNCHANGED trail

SpecMsg == InitConv /\ [][NextMsg]_vars

\* two users in conversation with the bot at the same time
PairUsers == {101, 102}

InitPair ==
    /\ slots = ConvStore.slots
    /\ bookings = ConvStore.bookings
    /\ seq = ConvStore.seq
    /\ last = [op |-> "init", id |-> 0, uid |-> 0, k |-> NoKey,
               ok |-> TRUE, rk |-> NoKey]
    /\ tasks = EmptyFn
    /\ lock = 0
    /\ tx = NoTx
    /\ fsm = [u \in PairUsers |-> NoSession]
    /\ ev = NoEvent
    /\ now = Clock0
    /\ wk = WorkerIdle
    /\ sent = {}
    /\ trail = [u \in PairUsers |-> {}]

\* each of the two users books the laminating service on 2026-03-10
NextPair ==
    \/ \E u \in PairUsers : cmd_start(u)
         /\ UNCHANGED trail
    \/ \E u \in PairUsers : nav_book(u)
         /\ UNCHANGED trail
    \/ \E u \in PairUsers : u_start(u)
         /\ UNCHANGED trail
    \/ \E u \in PairUsers : u_service(u, "lami")
         /\ UNCHANGED trail
    \/ \E u \in PairUsers : u_day(u, K1[1])
         /\ UNCHANGED trail
    \/ \E u \in PairUsers, k \in ConvKeys : u_time(u, k)
         /\ UNCHANGED trail
    \/ \E u \in PairUsers : u_fullname(u, "Ivanenko Maria")
         /\ UNCHANGED trail
    \/ \E u \in PairUsers : u_phone(u, "+380991234567")
         /\ UNCHANGED trail
    \/ \E u \in PairUsers, a \in {"yes", "no"} : u_confirm(u, a)
         /\ UNCHANGED trail

SpecPair == InitPair /\ [][NextPair]_vars

\* the process is stopped and started again: MemoryStorage, the tasks and
\* the open connections are gone, the database file is as the last commit
\* left it, the reminder worker starts anew
Restart ==
    /\ fsm' = [u \in DOMAIN fsm |-> NoSession]
    /\ trail' = [u \in DOMAIN trail |-> {}]
    /\ ev' = [NoEvent EXCEPT !.name = "restart"]
    /\ tasks' = EmptyFn
    /\ lock' = 0
    /\ tx' = NoTx
    /\ wk' = WorkerIdle
    /\ UNCHANGED <<slots, bookings, seq, last, now, sent>>

\* the conversation of SpecConv with restarts of the process and the text
\* messages dispatched
NextBoot ==
    \/ NextConv
    \/ \E u \in ConvUsers, txt \in Texts : Message(u, txt)
         /\ UNCHANGED trail
    \/ Restart

SpecBoot == InitConv /\ [][NextBoot]_vars

\* how a send can end
SendOutcomes == {"ok", "fails"}

\* the conversation of user 101 up to the confirmation, with sends of
\* u_confirm that may fail, while user 102 books the first time
NextSend ==
    \/ \E u \in ConvUsers : u_start(u)
         /\ UNCHANGED trail
    \/ \E u \in ConvUsers : u_service(u, "lami")
         /\ UNCHANGED trail
    \/ \E u \in ConvUsers, k \in ConvKeys : u_time(u, k)
         /\ UNCHANGED trail
    \/ \E u \in ConvUsers : u_fullname(u, "Ivanenko Maria")
         /\ UNCHANGED trail
    \/ \E u \in ConvUsers : u_phone(u, "+380991234567")
         /\ UNCHANGED trail
    \/ \E u \in ConvUsers, a \in {"yes", "no"}, answer \in SendOutcomes,
          notice \in [Range(admin_chat_targets) -> SendOutcomes] :
         u_confirm_sends(u, a, answer, notice)
         /\ UNCHANGED trail
    \/ OtherBooks(102, K1)

SpecSend == InitConv /\ [][NextSend]_vars

\* SELECT ... FROM bookings WHERE id=?: the row, or None (no element)
get_booking_by_id(db, id) ==
    IF id \in DOMAIN db.bookings THEN <<db.bookings[id]>> ELSE <<>>

\* a handler of "My bookings" that answers with an alert and returns
Alert(u, name, id, k, reply) ==
    /\ ev' = [u |-> u, name |-> name, arg |-> k, call |-> "", reply |-> reply,
              notices |-> {}, id |-> id]
    /\ UNCHANGED <<slots, bookings, seq, last, tasks, lock, tx, fsm, now, wk,
                   sent>>

\* a handler of "My bookings" that has called the store operation op, with
\* result r, answered and, on success, notified the admins
Acted(u, name, op, id, k, r) ==
    /\ Returned(op, id, u, k, r)
    /\ ev' = [u |-> u, name |-> name, arg |-> k,
              call |-> IF op = "cancel" THEN "cancel_booking" ELSE "move_booking",
              reply |-> IF r.ok THEN "done" ELSE "failed",
              notices |-> IF r.ok
                          THEN notify_admins(admin_chat_targets,
                                 [a \in Range(admin_chat_targets) |-> "ok"])
                          ELSE {},
              id |-> id]
    /\ UNCHANGED <<fsm, now, wk, sent>>

\* mutant: the owner of the appointment is not compared with the user
u_cancel_yes_anyone(u, id) ==
    LET bk == get_booking_by_id(DB, id)
    IN  IF bk = <<>> \/ bk[1].status # "active"
        THEN Alert(u, "u_cancel_yes", id, NoKey, "not_found")
        ELSE \E r \in {cancel_booking(DB, id)} :
               Acted(u, "u_cancel_yes", "cancel", id, NoKey, r)

\* u:cancel_yes:<id> pressed by user u
u_cancel_yes(u, id) ==
    LET bk == get_booking_by_id(DB, id)
    IN  IF bk = <<>> \/ bk[1].status # "active"
        THEN Alert(u, "u_cancel_yes", id, NoKey, "not_found")
        ELSE IF bk[1].user_id # u
        THEN Alert(u, "u_cancel_yes", id, NoKey, "not_yours")
        ELSE \E r \in {cancel_booking(DB, id)} :
               Acted(u, "u_cancel_yes", "cancel", id, NoKey, r)

\* u:move_yes:<id>:<d>:<hh>:<mm> pressed by user u; the dates and times of
\* the model all match the patterns of norm_date and norm_time
u_move_yes(u, id, k) ==
    LET bk == get_booking_by_id(DB, id)
    IN  IF bk = <<>> \/ bk[1].status # "active"
        THEN Alert(u, "u_move_yes", id, k, "not_found")
        ELSE IF bk[1].user_id # u
        THEN Alert(u, "u_move_yes", id, k, "not_yours")
        ELSE \E r \in {move_booking(DB, id, k)} :
               Acted(u, "u_move_yes", "move", id, k, r)

\* the store "My bookings" starts from: the three slots of 2026-03-10,
\* the first booked by user 101
OwnStore == book_slot(bulk_add_default_slots(EmptyDB).db, 101, K1).db

InitOwn ==
    /\ slots = OwnStore.slots
    /\ bookings = OwnStore.bookings
    /\ seq = OwnStore.seq
    /\ last = [op |-> "init", id |-> 0, uid |-> 0, k |-> NoKey,
               ok |-> TRUE, rk |-> NoKey]
    /\ tasks = EmptyFn
    /\ lock = 0
    /\ tx = NoTx
    /\ NoConversation

\* two users cancel and move appointments from "My bookings", their own
\* and each other's, and book further ones
NextOwn ==
    \/ \E u \in UserIds, id \in BookingIds : u_cancel_yes(u, id)
         /\ UNCHANGED trail
    \/ \E u \in UserIds, id \in BookingIds, k \in Keys : u_move_yes(u, id, k)
         /\ UNCHANGED trail
    \/ \E u \in UserIds, k \in Keys : OtherBooks(u, k)

SpecOwn == InitOwn /\ [][NextOwn]_vars

-----------------------------------------------------------------------------
(* Vocabulary of the properties *)

KeyOf(row) == <<row.d, row.t>>

\* the ids of the Active appointments that reference (d,t) = k
ActiveOn(bk, k) ==
    {b \in DOMAIN bk : bk[b].status = "active" /\ KeyOf(bk[b]) = k}

AllDone == \A i \in Tasks : tasks[i].pc = "done" /\ ~tasks[i].raised

Succeeded == {i \in Tasks : tasks[i].ok}

StoreUnchanged == slots' = slots /\ bookings' = bookings /\ seq' = seq

Flag(bk, b, field) ==
    IF field = "reminded_day" THEN bk[b].reminded_day ELSE bk[b].reminded_hour

\* minutes from the clock reading to the appointment of booking b
Delta(bk, b, clock) == appt_dt_local(bk[b].d, bk[b].t) - clock

\* the minutes before the appointment at which the reminder is due
Lead(field) == IF field = "reminded_day" THEN 24 * 60 ELSE 60

WindowWidth(field) ==
    IF field = "reminded_day" THEN DAY_WINDOW_MIN ELSE HOUR_WINDOW_MIN

\* the step is a sweep of the reminder worker
SweepStep == now' # now

-----------------------------------------------------------------------------
(* C1: when every handler in flight is a book_slot call on the same slot,  *)
(* open when the calls started, and all have returned without a store      *)
(* failure, exactly one returned True, exactly one Active appointment      *)
(* references the slot and the slot is closed.                             *)
C1_ExactlyOneBookSucceeds ==
    \A k \in Keys :
        ( /\ ConcStore.slots[k] = 1
          /\ AllDone
          /\ \A i \in Tasks : tasks[i].op = "book" /\ tasks[i].k = k )
        => /\ Cardinality(Succeeded) = 1
           /\ Cardinality(ActiveOn(bookings, k)) = 1
           /\ slots[k] = 0

(* C2: after any sequence of completed operations, the delete_* ones       *)
(* included, no (d,t) is referenced by more than one Active appointment.   *)
C2_AtMostOneActivePerSlot ==
    \A k \in Keys : Cardinality(ActiveOn(bookings, k)) <= 1

(* C3: after any sequence of completed Book, Cancel, Move, add-slot and    *)
(* bulk operations from the empty store, a slot is open exactly when no    *)
(* Active appointment references its (d,t).                                *)
C3_OpenIffNoActive ==
    \A k \in DOMAIN slots : (slots[k] = 1) <=> (ActiveOn(bookings, k) = {})

\* a Move has just succeeded; one slot is closed by an Active appointment
\* while a Canceled appointment references an open slot
C3_Witness ==
    /\ last.op = "move" /\ last.ok
    /\ \E k \in DOMAIN slots : slots[k] = 0 /\ ActiveOn(bookings, k) # {}
    /\ \E b \in DOMAIN bookings :
          /\ bookings[b].status = "canceled"
          /\ KeyOf(bookings[b]) \in DOMAIN slots
          /\ slots[KeyOf(bookings[b])] = 1

(* C4: when the handlers in flight are book_slot calls and move_booking    *)
(* calls of different appointments (at least one Move), all targeting the  *)
(* same slot, open when they started, and all have returned without a      *)
(* store failure, at most one returned True, the slot is closed and        *)
(* exactly one Active appointment references it.                           *)
C4_AtMostOneTakesTarget ==
    \A k \in Keys :
        ( /\ ConcStore.slots[k] = 1
          /\ AllDone
          /\ \A i \in Tasks : tasks[i].op \in {"book", "move"} /\ tasks[i].k = k
          /\ \E i \in Tasks : tasks[i].op = "move"
          /\ \A i, j \in Tasks :
                (i # j /\ tasks[i].op = "move" /\ tasks[j].op = "move")
                => tasks[i].id # tasks[j].id )
        => /\ Cardinality(Succeeded) <= 1
           /\ slots[k] = 0
           /\ Cardinality(ActiveOn(bookings, k)) = 1

(* C5: in every step a move_booking call takes, a store failure included,  *)
(* the tables other operations read either stay as they are or receive    *)
(* all three changes together: old slot reopened, target closed,           *)
(* appointment repointed.                                                  *)
C5_MoveAllOrNothing ==
    [][ \A i \in Tasks :
          (tasks[i].op = "move" /\ tasks'[i] # tasks[i])
          => \/ StoreUnchanged
             \/ LET old == KeyOf(tasks[i].row)
                     a == UpdateSlot(DB, old, 1)
                     b == UpdateSlot(a, tasks[i].k, 0)
                     c == UpdateMove(b, tasks[i].id, tasks[i].k)
                 IN  slots' = c.slots /\ bookings' = c.bookings /\ seq' = c.seq
      ]_vars

\* a move_booking call failed after sending at least one of its UPDATEs and
\* none of the three changes is in the tables
C5_Witness ==
    \E i \in Tasks :
        /\ tasks[i].op = "move" /\ tasks[i].raised /\ tasks[i].n >= 1
        /\ slots[tasks[i].k] = 1
        /\ slots[KeyOf(tasks[i].row)] = 0
        /\ KeyOf(bookings[tasks[i].id]) = KeyOf(tasks[i].row)

(* C6: a Move of an Active appointment to an existing open target returns  *)
(* True and leaves the old slot open, the target closed, the appointment   *)
(* on the target and Active, and both reminder flags 0.                    *)
C6_MoveToOpenTarget ==
    [][ \A id \in BookingIds, k \in Keys :
          ( /\ last'.op = "move" /\ last'.id = id /\ last'.k = k
            /\ id \in DOMAIN bookings
            /\ bookings[id].status = "active"
            /\ k \in DOMAIN slots
            /\ slots[k] = 1 )
          => /\ last'.ok
             /\ slots'[KeyOf(bookings[id])] = 1
             /\ slots'[k] = 0
             /\ KeyOf(bookings'[id]) = k
             /\ bookings'[id].status = "active"
             /\ bookings'[id].reminded_day = 0
             /\ bookings'[id].reminded_hour = 0
      ]_vars

\* a Move has just succeeded: the appointment is on the target, unreminded
C6_Witness ==
    /\ last.op = "move" /\ last.ok
    /\ KeyOf(bookings[last.id]) = last.k
    /\ bookings[last.id].reminded_day = 0
    /\ bookings[last.id].reminded_hour = 0
    /\ slots[last.k] = 0
    /\ \E k \in DOMAIN slots : k # last.k /\ slots[k] = 1

MoveMustFail(id, k) ==
    \/ id \notin DOMAIN bookings
    \/ bookings[id].status # "active"
    \/ k \notin DOMAIN slots
    \/ slots[k] = 0
    \/ KeyOf(bookings[id]) = k

(* C7: a Move whose appointment is missing or not Active, or whose target  *)
(* is closed, nonexistent or the appointment's own slot, returns False;    *)
(* and a Move that returns False leaves every slot and every field of      *)
(* every appointment unchanged.                                            *)
C7_FailedMoveChangesNothing ==
    [][ /\ \A id \in BookingIds, k \in Keys :
             ( /\ last'.op = "move" /\ last'.id = id /\ last'.k = k
               /\ MoveMustFail(id, k) )
             => ~last'.ok
        /\ (last'.op = "move" /\ ~last'.ok) => StoreUnchanged
      ]_vars

\* a Move of an Active, already reminded appointment to a slot taken by
\* another appointment has just failed
C7_Witness ==
    /\ last.op = "move" /\ ~last.ok
    /\ last.id \in DOMAIN bookings
    /\ bookings[last.id].status = "active"
    /\ bookings[last.id].reminded_day = 1
    /\ bookings[last.id].reminded_hour = 1
    /\ KeyOf(bookings[last.id]) # last.k
    /\ last.k \in DOMAIN slots
    /\ slots[last.k] = 0

(* C8: Cancel of an Active appointment marks it canceled, reopens its slot *)
(* and returns True; Cancel of a canceled appointment returns True and     *)
(* changes no slot and no appointment.                                     *)
C8_CancelIdempotent ==
    [][ \A id \in BookingIds :
          (last'.op = "cancel" /\ last'.id = id /\ id \in DOMAIN bookings)
          => IF bookings[id].status = "active"
             THEN /\ last'.ok
                  /\ last'.rk = KeyOf(bookings[id])
                  /\ bookings' = [bookings EXCEPT ![id].status = "canceled"]
                  /\ slots'[KeyOf(bookings[id])] = 1
                  /\ \A k \in DOMAIN slots :
                        k # KeyOf(bookings[id]) => slots'[k] = slots[k]
             ELSE /\ last'.ok
                  /\ StoreUnchanged
      ]_vars

\* Cancel has just returned True for an appointment whose slot is closed by
\* another, Active appointment: the repeated Cancel left the slot closed
C8_Witness ==
    /\ last.op = "cancel" /\ last.ok
    /\ bookings[last.id].status = "canceled"
    /\ slots[KeyOf(bookings[last.id])] = 0
    /\ ActiveOn(bookings, KeyOf(bookings[last.id])) # {}

(* C9: Book on a slot that a Canceled appointment of another owner         *)
(* references and no Active appointment does returns True and inserts a    *)
(* new Active appointment with the new owner's details, every earlier      *)
(* appointment staying as it was.                                          *)
C9_CanceledSlotReusable ==
    [][ \A uid \in UserIds, k \in Keys :
          ( /\ last'.op = "book" /\ last'.uid = uid /\ last'.k = k
            /\ k \in DOMAIN slots
            /\ ActiveOn(bookings, k) = {}
            /\ \E b \in DOMAIN bookings :
                  /\ bookings[b].status = "canceled"
                  /\ KeyOf(bookings[b]) = k
                  /\ bookings[b].user_id # uid )
          => /\ last'.ok
             /\ DOMAIN bookings' = DOMAIN bookings \cup {seq + 1}
             /\ bookings'[seq + 1].status = "active"
             /\ KeyOf(bookings'[seq + 1]) = k
             /\ bookings'[seq + 1].user_id = uid
             /\ bookings'[seq + 1].client_name = Details(uid).client_name
             /\ bookings'[seq + 1].phone = Details(uid).phone
             /\ \A b \in DOMAIN bookings : bookings'[b] = bookings[b]
      ]_vars

\* the second Book has just succeeded: the new appointment is Active on the
\* slot and an earlier one, of another owner and contact, is Canceled on it
C9_Witness ==
    /\ last.op = "book" /\ last.ok
    /\ bookings[seq].status = "active"
    /\ KeyOf(bookings[seq]) = last.k
    /\ \E b \in DOMAIN bookings :
          /\ b < seq
          /\ bookings[b].status = "canceled"
          /\ KeyOf(bookings[b]) = last.k
          /\ bookings[b].user_id # bookings[seq].user_id
          /\ bookings[b].client_name # bookings[seq].client_name
          /\ bookings[b].phone # bookings[seq].phone

(* C10: Book on a (d,t) with no slot row, or whose slot is closed, returns *)
(* False and changes nothing: no slot row appears or flips and no          *)
(* appointment is inserted.                                                *)
C10_BookUnavailableChangesNothing ==
    [][ \A uid \in UserIds, k \in Keys :
          ( /\ last'.op = "book" /\ last'.uid = uid /\ last'.k = k
            /\ (k \notin DOMAIN slots \/ slots[k] # 1) )
          => /\ ~last'.ok
             /\ StoreUnchanged
      ]_vars

\* Book has just failed on a (d,t) that has no slot row, while other slots
\* exist
C10_Witness ==
    /\ last.op = "book" /\ ~last.ok
    /\ last.k \notin DOMAIN slots
    /\ DOMAIN slots # {}

(* C11: in every step a book_slot call takes after its open-check, a store *)
(* failure at any await included, the tables other operations read either  *)
(* stay as they are or receive both changes together: the slot closed and  *)
(* the new Active appointment inserted; never the one without the other.   *)
C11_BookAllOrNothing ==
    [][ \A i \in Tasks :
          (tasks[i].op = "book" /\ tasks'[i] # tasks[i])
          => \/ StoreUnchanged
             \/ LET a == UpdateSlot(DB, tasks[i].k, 0)
                     b == InsertBooking(a, tasks[i].uid, tasks[i].k)
                 IN  slots' = b.slots /\ bookings' = b.bookings /\ seq' = b.seq
      ]_vars

\* a book_slot call failed after closing the slot in its transaction, or
\* after the INSERT too, and the slot is open with no appointment of the
\* caller recorded
C11_Witness ==
    \E i \in Tasks :
        /\ tasks[i].op = "book" /\ tasks[i].raised /\ tasks[i].n >= 1
        /\ slots[tasks[i].k] = 1
        /\ \A b \in DOMAIN bookings : bookings[b].user_id # tasks[i].uid

(* C12: get_open_times(d) returns the times of the slots of date d that    *)
(* are open, each once, in ascending order, and nothing else; for a date   *)
(* with no open slot or no slot row it returns the empty sequence, without *)
(* failing; and it changes no slot and no appointment.                     *)
C12_OpenTimesListed ==
    [][ \A d \in AllDates :
          (last'.op = "get_open_times" /\ last'.k = <<d, "">>)
          => LET r == last'.rk
                 open == {t \in Times : /\ <<d, t>> \in DOMAIN slots
                                        /\ slots[<<d, t>>] = 1}
             IN  /\ last'.ok
                 /\ {r[i] : i \in 1..Len(r)} = open
                 /\ Len(r) = Cardinality(open)
                 /\ \A i, j \in 1..Len(r) : i < j => TimeLess(r[i], r[j])
                 /\ (open = {}) => r = <<>>
                 /\ StoreUnchanged
      ]_vars

\* the listing has just returned the two later times of 2026-03-10 in
\* order, the first time of that date being booked and the same time of
\* the following day being open
C12_Witness ==
    /\ last.op = "get_open_times"
    /\ last.rk = <<"11:30", "13:30">>
    /\ K1 \in DOMAIN slots /\ slots[K1] = 0
    /\ K4 \in DOMAIN slots /\ slots[K4] = 1

C16_FlagOnlyAfterDelivery ==
    [][ SweepStep =>
          \A b \in DOMAIN bookings, f \in Fields :
            LET e == <<b, f>>
                delta == Delta(bookings, b, now')
            IN  /\ ( Flag(bookings, b, f) = 0 /\ Flag(bookings', b, f) = 1 )
                   => e \in wk'.delivered
                /\ ( e \in wk'.tried /\ e \notin wk'.delivered )
                   => Flag(bookings', b, f) = 0
                /\ ( /\ bookings[b].status = "active"
                     /\ Flag(bookings, b, f) = 0
                     /\ InWindow(f, delta) )
                   => e \in wk'.tried
                /\ ( /\ Flag(bookings, b, f) = 0
                     /\ delta < Lead(f) - WindowWidth(f) )
                   => /\ e \notin wk'.tried
                      /\ Flag(bookings', b, f) = 0
      ]_vars

\* the window of booking 1's hour reminder is behind, no sweep delivered
\* it, the flag is 0 and the sweep just made has not attempted it
C16_Witness ==
    /\ bookings[1].status = "active" /\ KeyOf(bookings[1]) = K1
    /\ last.op = "init"
    /\ Delta(bookings, 1, now) < 60 - HOUR_WINDOW_MIN
    /\ bookings[1].reminded_hour = 0
    /\ <<1, "reminded_hour", K1>> \notin sent
    /\ <<1, "reminded_hour">> \notin wk.tried

(* C17: in every sweep, whatever fails for other rows (a send or the       *)
(* UPDATE of a flag), each Active appointment that is inside a window with *)
(* that window's flag 0 has its send attempted, and the worker ends the    *)
(* sweep asleep, ready for the next one.                                   *)
C17_FailureDoesNotStopSweep ==
    [][ SweepStep =>
          /\ \A b \in DOMAIN bookings, f \in Fields :
               ( /\ bookings[b].status = "active"
                 /\ Flag(bookings, b, f) = 0
                 /\ InWindow(f, Delta(bookings, b, now')) )
               => <<b, f>> \in wk'.tried
          /\ wk'.pc = "sleep"
      ]_vars

\* in the sweep just made the hour reminder of booking 1 was sent but its
\* flag could not be written, and the day reminder of booking 2, visited
\* after it, was sent and flagged
C17_Witness ==
    /\ last.op = "init"
    /\ <<1, "reminded_hour">> \in wk.delivered
    /\ bookings[1].reminded_hour = 0
    /\ <<2, "reminded_day">> \in wk.delivered
    /\ bookings[2].reminded_day = 1
    /\ wk.pc = "sleep"

(* C18: an Active appointment whose window has not opened yet and whose    *)
(* flag is 0 leads to: the reminder delivered and the flag 1 while the     *)
(* window is still open, unless the appointment was canceled or moved or   *)
(* an attempted delivery failed.  The worker sweeps again after every      *)
(* sleep (weak fairness of Sweep) and consecutive sweeps are at most       *)
(* 1 + MaxLag minutes apart.  Stated for the two reminders whose windows   *)
(* lie within the minutes followed: the hour reminder of booking 1 on K1   *)
(* and the day reminder of booking 2 on K5.                                *)
C18_ReminderBeforeWindowCloses ==
    \A x \in {<<1, "reminded_hour", K1>>, <<2, "reminded_day", K5>>} :
        ( /\ bookings[x[1]].status = "active"
          /\ KeyOf(bookings[x[1]]) = x[3]
          /\ Flag(bookings, x[1], x[2]) = 0
          /\ Delta(bookings, x[1], now) > Lead(x[2]) + WindowWidth(x[2]) )
        ~> ( \/ /\ bookings[x[1]].status = "active"
                /\ KeyOf(bookings[x[1]]) = x[3]
                /\ Flag(bookings, x[1], x[2]) = 1
                /\ x \in sent
                /\ Delta(bookings, x[1], now) >= Lead(x[2]) - WindowWidth(x[2])
             \/ ~( /\ bookings[x[1]].status = "active"
                   /\ KeyOf(bookings[x[1]]) = x[3] )
             \/ ( /\ <<x[1], x[2]>> \in wk.tried
                  /\ <<x[1], x[2]>> \notin wk.delivered ) )

\* no operation touched the store, the first sweep that found the windows
\* open delivered both reminders, and the windows are still open
C18_Witness ==
    /\ last.op = "init"
    /\ bookings[1].reminded_hour = 1 /\ <<1, "reminded_hour", K1>> \in sent
    /\ bookings[2].reminded_day = 1 /\ <<2, "reminded_day", K5>> \in sent
    /\ <<1, "reminded_hour">> \in wk.delivered
    /\ <<2, "reminded_day">> \in wk.delivered
    /\ InHourWindow(Delta(bookings, 1, now))
    /\ InDayWindow(Delta(bookings, 2, now))

(* C19: a reminder flag of an appointment is 1 only if a sweep delivered   *)
(* that reminder computed for the slot the appointment is on now; so after *)
(* a Move each flag stays 0 until the reminder for the new slot time is    *)
(* delivered, also when the Move runs between a sweep's SELECT and its     *)
(* visit of the row.                                                       *)
C19_MovedReEarnsReminders ==
    \A b \in DOMAIN bookings, f \in Fields :
        Flag(bookings, b, f) = 1 => <<b, f, KeyOf(bookings[b])>> \in sent

(* C13: a session reaches the confirm state only with service, date, time, *)
(* name and phone collected; and confirm=yes in that state while the slot  *)
(* of the collected date and time is open ends with the session cleared    *)
(* (state None, no data), exactly one appointment inserted: Active, owned  *)
(* by the user, on that (d,t), with the collected service, ext_type, name  *)
(* and phone and both flags 0, every earlier appointment as it was, and    *)
(* the slot closed.                                                        *)
C13_FlowBooksOnce ==
    [][ \A u \in ConvUsers :
          LET s == fsm[u]
              k == <<s.day, s.time>>
          IN  /\ s.state = "confirm" => Collected(s)
              /\ ( /\ ev'.name = "u_confirm" /\ ev'.u = u
                   /\ ev'.arg = <<"yes", "">>
                   /\ s.state = "confirm"
                   /\ k \in DOMAIN slots
                   /\ slots[k] = 1 )
                 => /\ fsm'[u] = NoSession
                    /\ last'.op = "book" /\ last'.ok
                    /\ seq' = seq + 1
                    /\ DOMAIN bookings' = DOMAIN bookings \cup {seq + 1}
                    /\ bookings'[seq + 1] =
                         [user_id |-> u, client_name |-> s.client_name,
                          phone |-> s.phone, service |-> s.service,
                          ext_type |-> s.ext_type, d |-> s.day, t |-> s.time,
                          status |-> "active",
                          reminded_day |-> 0, reminded_hour |-> 0]
                    /\ \A b \in DOMAIN bookings : bookings'[b] = bookings[b]
                    /\ slots'[k] = 0
      ]_vars

\* user 101 has just confirmed: the session is cleared and the newest
\* appointment is theirs, an extension of type 2D under the name and phone
\* they typed, on a slot that is now closed
C13_Witness ==
    /\ ev.name = "u_confirm" /\ ev.call = "book_slot"
    /\ last.op = "book" /\ last.ok /\ last.uid = 101
    /\ fsm[101] = NoSession
    /\ bookings[seq].user_id = 101
    /\ bookings[seq].status = "active"
    /\ bookings[seq].service = SERV_EXT
    /\ bookings[seq].ext_type = EXT_TYPES[2]
    /\ bookings[seq].client_name = "Ivanenko Maria"
    /\ bookings[seq].phone = "+380991234567"
    /\ slots[KeyOf(bookings[seq])] = 0

(* C14: confirm=yes in the confirm state while the collected (d,t) is held *)
(* by an Active appointment of another user inserts no appointment and     *)
(* leaves the session in the time state for the same date when that date   *)
(* still has an open time, in the day state when it has none.              *)
C14_SlotTakenBackToTimes ==
    [][ \A u \in ConvUsers :
          LET s == fsm[u]
              k == <<s.day, s.time>>
          IN  ( /\ ev'.name = "u_confirm" /\ ev'.u = u
                /\ ev'.arg = <<"yes", "">>
                /\ s.state = "confirm"
                /\ k \in DOMAIN slots
                /\ slots[k] = 0
                /\ \E b \in ActiveOn(bookings, k) : bookings[b].user_id # u )
              => /\ bookings' = bookings
                 /\ fsm'[u].day = s.day
                 /\ fsm'[u].state =
                      IF get_open_times(DB, s.day) = <<>> THEN "day" ELSE "time"
      ]_vars

(* C20: a conversation handler calls book_slot only when the update is     *)
(* confirm=yes and the user's session is in the confirm state.             *)
C20_BookOnlyAtConfirmation ==
    [][ \A u \in ConvUsers :
          (ev'.u = u /\ ev'.call = "book_slot")
          => /\ ev'.name = "u_confirm"
             /\ ev'.arg = <<"yes", "">>
             /\ fsm[u].state = "confirm"
      ]_vars

\* the stages a session in stage st must have been in before, when its
\* service is serv
Before(st, serv) ==
    CASE st = "service"  -> {}
      [] st = "ext_type" -> {"service"}
      [] st = "day"      -> IF serv = SERV_EXT THEN {"service", "ext_type"}
                            ELSE {"service"}
      [] st = "time"     -> {"day"}
      [] st = "fullname" -> {"time"}
      [] st = "phone"    -> {"fullname"}
      [] st = "confirm"  -> {"phone"}

(* C21: a session is in a stage only if, since it was last Idle, it has    *)
(* been in the stage before it (service before ext_type and day, ext_type  *)
(* before day for the extension service, day before time, time before     *)
(* fullname, fullname before phone, phone before confirm); so a session in *)
(* confirm has been through all of them.                                   *)
C21_StagesInOrder ==
    \A u \in ConvUsers :
      /\ \A st \in trail[u] : Before(st, fsm[u].service) \subseteq trail[u]
      /\ fsm[u].state = "confirm"
           => {"service", "day", "time", "fullname", "phone"} \subseteq trail[u]

\* the step changes no slot and no appointment
StoreKept == slots' = slots /\ bookings' = bookings /\ seq' = seq

(* C22: u:day for a date with no open time, received in the day state,     *)
(* leaves the session in the day state, answers that the date has no free  *)
(* time, calls no store operation and changes no slot and no appointment.  *)
C22_EmptyDateStaysInDay ==
    [][ \A u \in ConvUsers :
          ( /\ ev'.name = "u_day" /\ ev'.u = u
            /\ fsm[u].state = "day"
            /\ get_open_times(DB, ev'.arg[1]) = <<>> )
          => /\ fsm'[u].state = "day"
             /\ ev'.reply = "no_times"
             /\ ev'.call = ""
             /\ StoreKept
      ]_vars

\* user 101, choosing a date, has just been told that 2026-03-10, whose
\* two slots are both taken, has no free time
C22_Witness ==
    /\ ev.name = "u_day" /\ ev.u = 101 /\ ev.reply = "no_times"
    /\ ev.arg[1] = K1[1]
    /\ fsm[101].state = "day"
    /\ fsm[101].day = K1[1]
    /\ slots[K1] = 0 /\ slots[K2] = 0

(* C23: u:time and the name and phone texts change no slot and no          *)
(* appointment and call no store operation; while the session holds a      *)
(* chosen (d,t) in fullname, phone or confirm and that slot is open,       *)
(* book_slot of another user on it succeeds; and book_slot called by       *)
(* confirm=yes on a slot that is no longer open inserts nothing.           *)
C23_ChosenTimeNotHeld ==
    [][ \A u \in ConvUsers :
          LET s == fsm[u]
              k == <<s.day, s.time>>
          IN  /\ (ev'.u = u /\ ev'.name \in {"u_time", "u_fullname", "u_phone"})
                 => (StoreKept /\ ev'.call = "")
              /\ ( /\ s.state \in {"fullname", "phone", "confirm"}
                   /\ k \in DOMAIN slots
                   /\ slots[k] = 1 )
                 => book_slot(DB, 102, k).ok
              /\ ( /\ ev'.u = u /\ ev'.call = "book_slot"
                   /\ k \in DOMAIN slots
                   /\ slots[k] = 0 )
                 => (bookings' = bookings /\ seq' = seq /\ ~last'.ok)
      ]_vars

\* user 101 holds 09:30 in a session that waits for the confirmation, and
\* user 102 has just booked that slot
C23_Witness ==
    /\ fsm[101].state = "confirm"
    /\ <<fsm[101].day, fsm[101].time>> = K1
    /\ last.op = "book" /\ last.uid = 102 /\ last.ok /\ last.k = K1
    /\ ev = NoEvent
    /\ slots[K1] = 0

(* C26: confirm=no in the confirm state clears the session (state None, no *)
(* data), calls no store operation and changes no slot and no appointment; *)
(* and confirm=yes on a cleared session calls no store operation and       *)
(* changes no slot and no appointment either.                              *)
C26_DeclineDiscards ==
    [][ \A u \in ConvUsers :
          /\ ( /\ ev'.name = "u_confirm" /\ ev'.u = u
               /\ ev'.arg = <<"no", "">>
               /\ fsm[u].state = "confirm" )
             => (fsm'[u] = NoSession /\ ev'.call = "" /\ StoreKept)
          /\ ( /\ ev'.name = "u_confirm" /\ ev'.u = u
               /\ ev'.arg = <<"yes", "">>
               /\ fsm[u] = NoSession )
             => (fsm'[u] = NoSession /\ ev'.call = "" /\ StoreKept)
      ]_vars

\* user 101 has just declined: the session is cleared, nothing is booked
\* and both slots are still open
C26_Witness ==
    /\ ev.name = "u_confirm" /\ ev.u = 101
    /\ ev.arg = <<"no", "">>
    /\ ev.reply = "cancelled"
    /\ fsm[101] = NoSession
    /\ bookings = EmptyFn
    /\ slots[K1] = 1 /\ slots[K2] = 1

\* the text without every character that is neither a digit nor a plus
DigitsAndPlus(txt) ==
    CHOOSE t \in TextsWide :
      Spelling(t) = SelectSeq(Spelling(txt), LAMBDA c : c \in Digits \cup {"+"})

(* C24: a text received in the fullname state is rejected exactly when it  *)
(* has fewer than 2 characters or cannot be separated into two tokens; a   *)
(* rejected text leaves the session as it was, in fullname, and an         *)
(* accepted text is stored as client_name and the session moves to phone.  *)
C24_NameRejectedWhenTooShort ==
    [][ \A u \in ConvUsers :
          (ev'.name = "u_fullname" /\ ev'.u = u /\ fsm[u].state = "fullname")
          => LET fullname == strip(ev'.arg[1])
             IN  IF Chars(fullname) < 2 \/ Words(fullname) < 2
                 THEN fsm'[u] = fsm[u]
                 ELSE fsm'[u] = [fsm[u] EXCEPT !.client_name = fullname,
                                               !.state = "phone"]
      ]_vars

(* C25: a text received in the phone state is accepted only if it has      *)
(* between 9 and 15 digits; a text with fewer than 9 or more than 15       *)
(* digits leaves the session as it was, in phone; and the phone stored by  *)
(* an accepted text is the text without every character that is neither a  *)
(* digit nor a plus.                                                       *)
C25_PhoneNineToFifteenDigits ==
    [][ \A u \in ConvUsers :
          (ev'.name = "u_phone" /\ ev'.u = u /\ fsm[u].state = "phone")
          => LET txt == ev'.arg[1]
                 n == digits_count(txt)
             IN  /\ (n < 9 \/ n > 15) => fsm'[u] = fsm[u]
                 /\ fsm'[u].state = "confirm"
                      => fsm'[u].phone = DigitsAndPlus(txt)
      ]_vars

(* C27: /start and the menu button, received in any state, clear the       *)
(* session (state None, no data); the book button and u:start, received in *)
(* any state, leave a session in the service state with no data; in the    *)
(* fullname and phone states these texts are not taken as a name or a      *)
(* phone; and none of them changes a slot or an appointment.               *)
C27_RestartFromAnyStage ==
    [][ \A u \in ConvUsers :
          /\ (ev'.u = u /\ ev'.arg[1] \in {CMD_START, NAV_MENU})
             => (fsm'[u] = NoSession /\ StoreKept)
          /\ (ev'.u = u /\ (ev'.arg[1] = NAV_BOOK \/ ev'.name = "u_start"))
             => (fsm'[u] = [NoSession EXCEPT !.state = "service"] /\ StoreKept)
          /\ (ev'.u = u /\ ev'.arg[1] \in {CMD_START, NAV_MENU, NAV_BOOK})
             => ev'.name \notin {"u_fullname", "u_phone"}
      ]_vars

\* the book button has just been pressed: the session waits for a service
\* and holds nothing else
C27_Witness ==
    /\ ev.name = "nav_book" /\ ev.u = 101 /\ ev.arg[1] = NAV_BOOK
    /\ fsm[101] = [NoSession EXCEPT !.state = "service"]

(* C28: a handler run for an update of one user leaves the session (state  *)
(* and data) of every other user as it was; and after the book button or   *)
(* u:start the user's session is in the service state and holds no field   *)
(* of the flow that was under way.                                         *)
C28_SessionsPerUser ==
    [][ \A a \in DOMAIN fsm :
          ev'.u = a
          => /\ \A b \in DOMAIN fsm \ {a} : fsm'[b] = fsm[b]
             /\ ev'.name \in {"nav_book", "u_start"}
                  => fsm'[a] = [NoSession EXCEPT !.state = "service"]
      ]_vars

\* user 102 has just started a new flow while user 101's session waits for
\* the confirmation with everything collected
C28_Witness ==
    /\ ev.u = 102 /\ ev.name = "u_start"
    /\ fsm[102] = [NoSession EXCEPT !.state = "service"]
    /\ fsm[101].state = "confirm"
    /\ Collected(fsm[101])

\* the updates a user sends in the course of a booking flow
FlowEvents ==
    {"u_service", "u_ext", "u_day", "u_time", "u_fullname", "u_phone",
     "unhandled", "u_confirm"}

(* C29: the first update after a restart of the process, when it is one of *)
(* a booking flow (a service, type, date or time button, a name or phone   *)
(* text, a confirm button), changes no slot and no appointment and leaves  *)
(* the user's session in state None.                                       *)
C29_RestartLosesFlow ==
    [][ \A u \in ConvUsers :
          (ev.name = "restart" /\ ev'.u = u /\ ev'.name \in FlowEvents)
          => (StoreKept /\ fsm'[u].state = NoneVal)
      ]_vars

(* C30: no step removes the row of a slot whose (d,t) is the (d,t) of an    *)
(* appointment, Active or Canceled, at the time of the step.               *)
C30_ReferencedSlotNotRemoved ==
    [][ \A k \in DOMAIN slots :
          (\E b \in DOMAIN bookings : KeyOf(bookings[b]) = k)
          => k \in DOMAIN slots'
      ]_vars

(* C31: every appointment of the ledger is in the ledger after every step  *)
(* (status, (d,t) and flags may change, the row is not removed); and after *)
(* every step each closed slot is the (d,t) of some appointment row.       *)
C31_AppointmentsNeverRemoved ==
    [][ /\ \A b \in DOMAIN bookings : b \in DOMAIN bookings'
        /\ \A k \in DOMAIN slots' :
             slots'[k] = 0 => \E b \in DOMAIN bookings' : KeyOf(bookings'[b]) = k
      ]_vars

(* C32: add_slot on a (d,t) that has a slot returns False and changes no   *)
(* slot (a closed slot stays closed) and no appointment; and               *)
(* bulk_add_default_slots leaves every slot that exists as it was, counts  *)
(* each of its keys that exists as skipped and changes no appointment.     *)
C32_InsertExistingSlotIsNoOp ==
    [][ /\ (last'.op = "add_slot" /\ last'.k \in DOMAIN slots)
           => (~last'.ok /\ StoreKept)
        /\ last'.op = "bulk"
           => /\ \A k \in DOMAIN slots : k \in DOMAIN slots' /\ slots'[k] = slots[k]
              /\ last'.rk[2] = Cardinality(BulkKeys \cap DOMAIN slots)
              /\ bookings' = bookings /\ seq' = seq
      ]_vars

\* add_slot has just been refused on 09:30, which is closed and booked
C32_Witness ==
    /\ last.op = "add_slot" /\ ~last.ok /\ last.k = K1
    /\ K1 \in DOMAIN slots
    /\ slots[K1] = 0
    /\ ActiveOn(bookings, K1) # {}

(* C33: when book_slot called by u_confirm succeeds, then whatever the     *)
(* sends of the handler do, the appointment is in the ledger, Active, the  *)
(* user's session is cleared and a send of the admin notice has been       *)
(* attempted to every admin chat.                                          *)
C33_SendFailuresNotFatal ==
    [][ \A u \in ConvUsers :
          ( /\ ev'.u = u /\ ev'.name = "u_confirm"
            /\ ev'.call = "book_slot"
            /\ seq' = seq + 1 )
          => /\ seq' \in DOMAIN bookings'
             /\ bookings'[seq'].status = "active"
             /\ bookings'[seq'].user_id = u
             /\ fsm'[u] = NoSession
             /\ ev'.notices = Range(admin_chat_targets)
      ]_vars

(* C34: when the handlers in flight are cancel_booking calls and one       *)
(* move_booking call, all on the same appointment, Active when they        *)
(* started, and all have returned without a store failure, every slot is   *)
(* open exactly when no Active appointment references it; in particular    *)
(* the target of the Move is not closed while the appointment is Canceled. *)
C34_CancelMoveKeepOpenIffNoActive ==
    \A b \in {1, 2} :
        ( /\ AllDone
          /\ \A i \in Tasks : tasks[i].op \in {"cancel", "move"} /\ tasks[i].id = b
          /\ \E i \in Tasks : tasks[i].op = "cancel"
          /\ Cardinality({i \in Tasks : tasks[i].op = "move"}) = 1 )
        => \A k \in DOMAIN slots :
              (slots[k] = 1) <=> (ActiveOn(bookings, k) = {})

(* C35: every reminder delivered in a step is for an appointment that is   *)
(* Active when the step starts and carries the (d,t) the appointment has   *)
(* then; so an appointment canceled or moved after the sweep's SELECT and  *)
(* before its send gets no reminder for the slot it has left.              *)
C35_ReminderOnlyForCurrentActive ==
    [][ \A x \in sent' \ sent :
          /\ x[1] \in DOMAIN bookings
          /\ bookings[x[1]].status = "active"
          /\ KeyOf(bookings[x[1]]) = x[3]
      ]_vars

(* C36: u:cancel_yes and u:move_yes pressed by user u on appointment id    *)
(* change at most that appointment and its slots, and only when it is      *)
(* Active and its user_id is u; when it is missing, not Active or of       *)
(* another user, no slot and no appointment changes, no store operation is *)
(* called and no admin notice is sent.                                     *)
C36_OnlyOwnerCancelsOrMoves ==
    [][ \A u \in UserIds :
          (ev'.u = u /\ ev'.name \in {"u_cancel_yes", "u_move_yes"})
          => LET id == ev'.id
             IN  IF /\ id \in DOMAIN bookings
                    /\ bookings[id].status = "active"
                    /\ bookings[id].user_id = u
                 THEN /\ DOMAIN bookings' = DOMAIN bookings
                      /\ \A b \in DOMAIN bookings \ {id} :
                           bookings'[b] = bookings[b]
                      /\ \A k \in DOMAIN slots :
                           slots'[k] # slots[k]
                           => k \in {KeyOf(bookings[id]), KeyOf(bookings'[id])}
                 ELSE StoreKept /\ ev'.call = "" /\ ev'.notices = {}
      ]_vars

\* user 102 has just pressed the cancel button of appointment 1, which is
\* Active and of user 101: the answer is that it is not theirs, the
\* appointment is still Active and its slot closed
C36_Witness ==
    /\ ev.name = "u_cancel_yes" /\ ev.u = 102 /\ ev.id = 1
    /\ ev.reply = "not_yours" /\ ev.notices = {}
    /\ bookings[1].status = "active"
    /\ bookings[1].user_id = 101
    /\ slots[KeyOf(bookings[1])] = 0

====
